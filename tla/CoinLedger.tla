------------------------------ MODULE CoinLedger ------------------------------
(***************************************************************************)
(* Coins: bought through Paystack, which reports by a signed webhook and   *)
(* answers the server's verification calls; adjusted by administrators;    *)
(* spent on votes.  One CoinWallet row per user holds the balance, and     *)
(* CoinTransaction rows record every movement.                             *)
(*                                                                         *)
(* As in ManualVotes a request in flight is a process of Reqs, a row       *)
(* written by an open transaction is locked until it ends, and its writes  *)
(* are applied at its commit.  All transactions here are READ COMMITTED:   *)
(* a value read by an earlier statement may be old when a later one uses   *)
(* it.  The lock of a user stands for the wallet row and, while an insert  *)
(* is uncommitted, for the unique key CoinWallet.userId.                   *)
(***************************************************************************)
EXTENDS Integers

CONSTANTS
    Users, Payments, Contestants, Reqs,
    Coins,         \* Payment.totalCoins of each payment
    Offers,        \* values of coinsToSpend that clients send
    Adjustments,   \* amounts that administrators send
    None,          \* no row, no lock holder
    MaxCoins,      \* bound: no adjustment takes a balance or its ledger further
    MaxVotes       \* bound: no vote is cast beyond this many per contestant

ASSUME CoinAssumption ==
    /\ Coins \in [Payments -> Nat]
    /\ Offers \subseteq Nat
    /\ Adjustments \subseteq Int
    /\ Users \cap Payments = {}
    /\ None \notin Users \cup Payments \cup Contestants \cup Reqs
    /\ MaxCoins \in Nat /\ MaxVotes \in Nat

Rows == Users \cup Payments

VARIABLES
    paystack,   \* Paystack's side of a payment: "unknown", "open" or "paid"
    payment,    \* Payment.status; "ABSENT" has no row yet
    buyer,      \* Payment.userId
    wallets,    \* users with a CoinWallet row
    balance,    \* CoinWallet.balance
    booked,     \* the sum of CoinTransaction.amount over the wallet's rows
    credits,    \* number of CREDIT rows of a payment (CoinTransaction.reference,
                \* the payment's, is unique)
    eligible,   \* contestants neither REJECTED nor ELIMINATED, in an ACTIVE stage
                \* inside its voting window
    voted,      \* coin votes a contestant received: Vote rows and totalVotes
    pc,         \* where each request is
    pay,        \* the payment it works on
    usr,        \* the user whose wallet it works on
    con,        \* the contestant it votes for
    read,       \* the balance it has read
    delta,      \* the amount it adds to that
    fresh,      \* requests whose read is still the committed balance (history)
    lost,       \* users of whom an old balance was written back (history)
    lock        \* holder of the row lock

table == <<paystack, payment, buyer, wallets, balance, booked, credits, eligible, voted>>
regs == <<pay, usr, con, read, delta>>
vars == <<table, pc, regs, fresh, lost, lock>>

PaymentStatus == {"ABSENT", "PENDING", "SUCCESS", "FAILED"}

(* "failed" is a request that ended with an unhandled database error.        *)
Answered == {"idle", "failed"}

Init ==
    /\ paystack = [p \in Payments |-> "unknown"]
    /\ payment = [p \in Payments |-> "ABSENT"]
    /\ buyer = [p \in Payments |-> None]
    /\ wallets = {}
    /\ balance = [u \in Users |-> 0]
    /\ booked = [u \in Users |-> 0]
    /\ credits = [p \in Payments |-> 0]
    /\ eligible = Contestants
    /\ voted = [c \in Contestants |-> 0]
    /\ pc = [r \in Reqs |-> "idle"]
    /\ pay = [r \in Reqs |-> None]
    /\ usr = [r \in Reqs |-> None]
    /\ con = [r \in Reqs |-> None]
    /\ read = [r \in Reqs |-> 0]
    /\ delta = [r \in Reqs |-> 0]
    /\ fresh = {}
    /\ lost = {}
    /\ lock = [x \in Rows |-> None]

(***************************************************************************)
(* Transactions.                                                           *)
(***************************************************************************)
Goto(r, loc) == pc' = [pc EXCEPT ![r] = loc]

Finish(r, answer) ==
    /\ Goto(r, answer)
    /\ pay' = [pay EXCEPT ![r] = None]
    /\ usr' = [usr EXCEPT ![r] = None]
    /\ con' = [con EXCEPT ![r] = None]
    /\ read' = [read EXCEPT ![r] = 0]
    /\ delta' = [delta EXCEPT ![r] = 0]
    /\ lock' = [x \in Rows |-> IF lock[x] = r THEN None ELSE lock[x]]

(* Mutant: the increment of a purchase is not part of its transaction.       *)
RollbackButBalance(r, answer) ==
    /\ Finish(r, answer)
    /\ fresh' = fresh \ {r}
    /\ balance' = IF pc[r] = "record" THEN [balance EXCEPT ![usr[r]] = @ + Coins[pay[r]]]
                  ELSE balance
    /\ UNCHANGED <<paystack, payment, buyer, wallets, booked, credits, eligible, voted, lost>>

Rollback(r, answer) ==
    /\ Finish(r, answer)
    /\ fresh' = fresh \ {r}
    /\ UNCHANGED <<table, lost>>

(* The wallet of u gets a new balance: what others have read of it is old.   *)
CommitBalance(r, u) ==
    /\ Finish(r, "idle")
    /\ fresh' = {q \in fresh : usr[q] # u} \ {r}

Take(r, x, loc) ==
    /\ lock[x] = None
    /\ lock' = [lock EXCEPT ![x] = r]
    /\ Goto(r, loc)

(***************************************************************************)
(* initCoinPurchase: the PENDING row, then the call to Paystack.           *)
(***************************************************************************)
InitCoinPurchase(r, u, p) ==
    /\ pc[r] \in Answered
    /\ payment[p] = "ABSENT"
    /\ payment' = [payment EXCEPT ![p] = "PENDING"]
    /\ buyer' = [buyer EXCEPT ![p] = u]
    /\ Goto(r, "initialize")
    /\ pay' = [pay EXCEPT ![r] = p]
    /\ UNCHANGED <<paystack, wallets, balance, booked, credits, eligible, voted,
                   usr, con, read, delta, fresh, lost, lock>>

InitializePaystack(r) ==
    /\ pc[r] = "initialize"
    /\ paystack' = [paystack EXCEPT ![pay[r]] = "open"]
    /\ Finish(r, "idle")
    /\ UNCHANGED <<payment, buyer, wallets, balance, booked, credits, eligible, voted,
                   fresh, lost>>

CustomerPays(p) ==
    /\ paystack[p] = "open"
    /\ paystack' = [paystack EXCEPT ![p] = "paid"]
    /\ UNCHANGED <<payment, buyer, wallets, balance, booked, credits, eligible, voted,
                   pc, regs, fresh, lost, lock>>

(***************************************************************************)
(* verifyForUser acts on Paystack's answer of the moment; the webhook is   *)
(* sent for a paid transaction, again and again until it is answered 2xx.  *)
(***************************************************************************)
HandlePayment(r, p, loc) ==
    /\ pc[r] \in Answered
    /\ payment[p] # "ABSENT"
    /\ Goto(r, loc)
    /\ pay' = [pay EXCEPT ![r] = p]
    /\ UNCHANGED <<table, usr, con, read, delta, fresh, lost, lock>>

VerifyForUser(r, p) ==
    \/ paystack[p] = "paid" /\ HandlePayment(r, p, "success")
    \/ paystack[p] = "open" /\ HandlePayment(r, p, "failure")

HandlePaystackWebhook(r, p) ==
    /\ paystack[p] = "paid"
    /\ HandlePayment(r, p, "success")

(* Mutant: a payment marked FAILED is final.                                 *)
FindUnsettled(r) ==
    /\ pc[r] = "success"
    /\ IF payment[pay[r]] \in {"SUCCESS", "FAILED"} THEN Rollback(r, "idle")
       ELSE /\ Goto(r, "claim")
            /\ UNCHANGED <<table, regs, fresh, lost, lock>>

(* processSuccessfulPayment, statement by statement: find, claim, find the   *)
(* wallet or create it, increment, record.                                   *)
FindPaid(r) ==
    /\ pc[r] = "success"
    /\ IF payment[pay[r]] = "SUCCESS" THEN Rollback(r, "idle")
       ELSE /\ Goto(r, "claim")
            /\ UNCHANGED <<table, regs, fresh, lost, lock>>

(* Mutant: the claim is repeated until it finds a payment to claim.          *)
ClaimUntilWon(r) ==
    /\ pc[r] = "claim"
    /\ payment[pay[r]] # "SUCCESS"
    /\ Take(r, pay[r], "find_wallet")
    /\ UNCHANGED <<table, regs, fresh, lost>>

ClaimPayment(r) ==
    /\ pc[r] = "claim"
    /\ IF payment[pay[r]] = "SUCCESS" THEN lock[pay[r]] = None /\ Rollback(r, "idle")
       ELSE /\ Take(r, pay[r], "find_wallet")
            /\ UNCHANGED <<table, regs, fresh, lost>>

FindWallet(r) ==
    LET u == buyer[pay[r]] IN
    /\ pc[r] = "find_wallet"
    /\ usr' = [usr EXCEPT ![r] = u]
    /\ Goto(r, IF u \in wallets THEN "increment" ELSE "credit_create")
    /\ UNCHANGED <<table, pay, con, read, delta, fresh, lost, lock>>

IncrementBalance(r) ==
    /\ pc[r] = "increment"
    /\ Take(r, usr[r], "record")
    /\ UNCHANGED <<table, regs, fresh, lost>>

(* Mutant: CoinTransaction.reference is not unique.                          *)
RecordCreditAgain(r) ==
    LET p == pay[r]
        u == usr[r]
    IN
    /\ pc[r] = "record"
    /\ payment' = [payment EXCEPT ![p] = "SUCCESS"]
    /\ wallets' = wallets \cup {u}
    /\ balance' = [balance EXCEPT ![u] = @ + Coins[p]]
    /\ booked' = [booked EXCEPT ![u] = @ + Coins[p]]
    /\ credits' = [credits EXCEPT ![p] = @ + 1]
    /\ CommitBalance(r, u)
    /\ UNCHANGED <<paystack, buyer, eligible, voted, lost>>

RecordCredit(r) ==
    LET p == pay[r]
        u == usr[r]
    IN
    /\ pc[r] = "record"
    /\ IF credits[p] > 0 THEN Rollback(r, "failed")
       ELSE /\ payment' = [payment EXCEPT ![p] = "SUCCESS"]
            /\ wallets' = wallets \cup {u}
            /\ balance' = [balance EXCEPT ![u] = @ + Coins[p]]
            /\ booked' = [booked EXCEPT ![u] = @ + Coins[p]]
            /\ credits' = [credits EXCEPT ![p] = @ + 1]
            /\ CommitBalance(r, u)
            /\ UNCHANGED <<paystack, buyer, eligible, voted, lost>>

(* markPaymentFailed: the status is read, then overwritten by reference.     *)
FindUnpaid(r) ==
    /\ pc[r] = "failure"
    /\ IF payment[pay[r]] = "SUCCESS" THEN Rollback(r, "idle")
       ELSE /\ Goto(r, "mark_failed")
            /\ UNCHANGED <<table, regs, fresh, lost, lock>>

MarkPaymentFailed(r) ==
    /\ pc[r] = "mark_failed"
    /\ lock[pay[r]] = None
    /\ payment' = [payment EXCEPT ![pay[r]] = "FAILED"]
    /\ Finish(r, "idle")
    /\ UNCHANGED <<paystack, buyer, wallets, balance, booked, credits, eligible, voted,
                   fresh, lost>>

(***************************************************************************)
(* cast and adjustWallet read the balance, then write an absolute value.   *)
(***************************************************************************)
(* Mutant: nobody looks whether the balance is enough.                       *)
ReadAnyBalance(r, u, c, amount, loc) ==
    /\ pc[r] \in Answered
    /\ Goto(r, loc)
    /\ usr' = [usr EXCEPT ![r] = u]
    /\ con' = [con EXCEPT ![r] = c]
    /\ read' = [read EXCEPT ![r] = balance[u]]
    /\ delta' = [delta EXCEPT ![r] = amount]
    /\ fresh' = fresh \cup {r}
    /\ UNCHANGED <<table, pay, lost, lock>>

ReadBalance(r, u, c, amount, loc) ==
    /\ pc[r] \in Answered
    /\ balance[u] + amount >= 0
    /\ Goto(r, loc)
    /\ usr' = [usr EXCEPT ![r] = u]
    /\ con' = [con EXCEPT ![r] = c]
    /\ read' = [read EXCEPT ![r] = balance[u]]
    /\ delta' = [delta EXCEPT ![r] = amount]
    /\ fresh' = fresh \cup {r}
    /\ UNCHANGED <<table, pay, lost, lock>>

Cast(r, u, c, coins) ==
    /\ coins >= 10
    /\ coins % 10 = 0
    /\ c \in eligible
    /\ u \in wallets
    /\ voted[c] + coins \div 10 <= MaxVotes
    /\ ReadBalance(r, u, c, -coins, "overwrite")

AdjustWallet(r, u, amount) ==
    /\ amount # 0
    /\ balance[u] + amount <= MaxCoins
    /\ booked[u] + amount \in -MaxCoins .. MaxCoins
    /\ ReadBalance(r, u, None, amount, IF u \in wallets THEN "overwrite" ELSE "adjust_create")

OverwriteBalance(r) ==
    /\ pc[r] = "overwrite"
    /\ Take(r, usr[r], "written")
    /\ UNCHANGED <<table, regs, fresh, lost>>

RecordMovement(r) ==
    LET u == usr[r]
        c == con[r]
    IN
    /\ pc[r] = "written"
    /\ wallets' = wallets \cup {u}
    /\ balance' = [balance EXCEPT ![u] = read[r] + delta[r]]
    /\ booked' = [booked EXCEPT ![u] = @ + delta[r]]
    /\ voted' = [k \in Contestants |->
                    IF k = c THEN voted[k] + (-delta[r]) \div 10 ELSE voted[k]]
    /\ lost' = IF r \in fresh THEN lost ELSE lost \cup {u}
    /\ CommitBalance(r, u)
    /\ UNCHANGED <<paystack, payment, buyer, credits, eligible>>

(***************************************************************************)
(* A wallet is created when it is first needed: by findMine outside any    *)
(* transaction, by processSuccessfulPayment and adjustWallet inside theirs. *)
(* The insert waits for another one of the same user, and then fails.      *)
(***************************************************************************)
FindMine(r, u) ==
    /\ pc[r] \in Answered
    /\ u \notin wallets
    /\ Goto(r, "ensure_create")
    /\ usr' = [usr EXCEPT ![r] = u]
    /\ UNCHANGED <<table, pay, con, read, delta, fresh, lost, lock>>

AfterCreate(loc) == CASE loc = "credit_create" -> "record"
                      [] loc = "adjust_create" -> "written"
                      [] loc = "ensure_create" -> "created"

CreateWallet(r) ==
    /\ pc[r] \in {"credit_create", "adjust_create", "ensure_create"}
    /\ IF usr[r] \in wallets THEN lock[usr[r]] = None /\ Rollback(r, "failed")
       ELSE /\ Take(r, usr[r], AfterCreate(pc[r]))
            /\ UNCHANGED <<table, regs, fresh, lost>>

CommitWallet(r) ==
    /\ pc[r] = "created"
    /\ wallets' = wallets \cup {usr[r]}
    /\ Finish(r, "idle")
    /\ UNCHANGED <<paystack, payment, buyer, balance, booked, credits, eligible, voted,
                   fresh, lost>>

(* Prisma's 5 s limit, a lost connection, a crash of the server.             *)
Abort(r) == pc[r] \notin Answered /\ Rollback(r, "failed")

(* Administrators and time decide who can be voted for.                      *)
SetEligible(c) ==
    /\ eligible' = IF c \in eligible THEN eligible \ {c} ELSE eligible \cup {c}
    /\ UNCHANGED <<paystack, payment, buyer, wallets, balance, booked, credits, voted,
                   pc, regs, fresh, lost, lock>>

(***************************************************************************)
(* The specification.                                                      *)
(***************************************************************************)
Start(r) ==
    \/ \E u \in Users, p \in Payments : InitCoinPurchase(r, u, p)
    \/ \E p \in Payments : VerifyForUser(r, p) \/ HandlePaystackWebhook(r, p)
    \/ \E u \in Users, c \in Contestants, n \in Offers : Cast(r, u, c, n)
    \/ \E u \in Users, n \in Adjustments : AdjustWallet(r, u, n)
    \/ \E u \in Users : FindMine(r, u)

Proceed(r) ==
    \/ InitializePaystack(r)
    \/ FindPaid(r)
    \/ ClaimPayment(r)
    \/ FindWallet(r)
    \/ IncrementBalance(r)
    \/ RecordCredit(r)
    \/ FindUnpaid(r)
    \/ MarkPaymentFailed(r)
    \/ OverwriteBalance(r)
    \/ RecordMovement(r)
    \/ CreateWallet(r)
    \/ CommitWallet(r)

Next ==
    \/ \E r \in Reqs : Start(r) \/ Proceed(r) \/ Abort(r)
    \/ \E p \in Payments : CustomerPays(p)
    \/ \E c \in Contestants : SetEligible(c)

Spec == Init /\ [][Next]_vars

(* Paystack repeats the webhook until a 2xx answer, which means credited;    *)
(* a request that can repeatedly take its step takes it (waiters for a row   *)
(* lock queue in order of arrival).                                          *)
Deliver(p) == credits[p] = 0 /\ \E r \in Reqs : HandlePaystackWebhook(r, p)
Fairness ==
    /\ \A r \in Reqs : SF_vars(Proceed(r))
    /\ \A p \in Payments : SF_vars(Deliver(p))

FairSpec == Spec /\ Fairness

(***************************************************************************)
(* Properties.                                                             *)
(***************************************************************************)
Location == Answered \cup
    {"initialize", "success", "claim", "find_wallet", "increment", "credit_create",
     "record", "failure", "mark_failed", "overwrite", "adjust_create", "written",
     "ensure_create", "created"}

(* Every variable stays in its domain; in particular a wallet balance never  *)
(* goes negative, whatever old balances are written back.                    *)
TypeOK ==
    /\ paystack \in [Payments -> {"unknown", "open", "paid"}]
    /\ payment \in [Payments -> PaymentStatus]
    /\ buyer \in [Payments -> Users \cup {None}]
    /\ wallets \subseteq Users
    /\ balance \in [Users -> Nat]
    /\ booked \in [Users -> Int]
    /\ credits \in [Payments -> Nat]
    /\ eligible \subseteq Contestants
    /\ voted \in [Contestants -> Nat]
    /\ pc \in [Reqs -> Location]
    /\ pay \in [Reqs -> Payments \cup {None}]
    /\ usr \in [Reqs -> Users \cup {None}]
    /\ con \in [Reqs -> Contestants \cup {None}]
    /\ read \in [Reqs -> Nat]
    /\ delta \in [Reqs -> Int]
    /\ fresh \subseteq Reqs
    /\ lost \subseteq Users
    /\ lock \in [Rows -> Reqs \cup {None}]

(* Webhooks delivered twice, verifications racing them, failures recorded in *)
(* between: a payment is credited at most once, only if it was paid, and     *)
(* never shows SUCCESS without having been credited.                         *)
CreditedOnce ==
    \A p \in Payments :
        /\ credits[p] <= 1
        /\ credits[p] = 1 => paystack[p] = "paid"
        /\ payment[p] = "SUCCESS" => credits[p] = 1

(* A balance differs from the sum of its transactions only for a user of     *)
(* whom cast or adjustWallet wrote back a balance read before another        *)
(* commit: nothing else, and no crash or rollback, loses or makes coins.     *)
LossNeedsOverlap ==
    \A u \in Users : balance[u] # booked[u] => u \in lost

(* Purchases, verifications, webhooks, adjustments and votes, with every     *)
(* interleaving of their statements and every failure between them, come to  *)
(* the atomic movements of CoinBank: no commit gives part of a purchase,     *)
(* gives it to another user, or moves coins without booking them.            *)
Bank == INSTANCE CoinBank WITH
    funded <- {p \in Payments : paystack[p] = "paid"},
    credited <- {p \in Payments : credits[p] > 0}
ImplementsBank == Bank!Spec

(* The rows the next statement of r can be waiting for.                      *)
Wants(r) ==
    CASE pc[r] \in {"claim", "mark_failed"} -> {pay[r]}
      [] pc[r] \in {"increment", "credit_create", "adjust_create", "ensure_create",
                    "overwrite"} -> {usr[r]}
      [] OTHER -> {}

(* Requests never all wait for each other: a purchase locks its payment,     *)
(* then the wallet, and every other transaction locks one row.               *)
NoDeadlock ==
    \A S \in SUBSET Reqs :
        (\A q \in S : \E x \in Wants(q) : lock[x] \in S) => S = {}

(* Money that reached Paystack becomes coins, through failed verifications,  *)
(* FAILED marks and rollbacks, unless requests fail forever.                 *)
PaidIsCredited ==
    (<>[][\A r \in Reqs : ~Abort(r)]_vars) =>
        \A p \in Payments : paystack[p] = "paid" ~> credits[p] > 0

(* No request waits forever: payment, then wallet is the only order in which *)
(* two rows are locked, so that no deadlock needs to be broken.              *)
RequestsAnswered ==
    \A r \in Reqs : pc[r] \notin Answered ~> pc[r] \in Answered

(* What the documentation says of votes: the voter must have enough coins,   *)
(* so that debits never exceed what was bought and adjusted.                 *)
EnoughCoins ==
    \A u \in Users : booked[u] >= 0

(* What the documentation says of verification: the payment is marked        *)
(* SUCCESS and credited, and verifying again changes nothing.                *)
CreditedIsSuccess ==
    \A p \in Payments : credits[p] > 0 => payment[p] = "SUCCESS"
================================================================================
