--------------------------- MODULE CoinLedgerProofs ---------------------------
(***************************************************************************)
(* Proofs about CoinLedger for any number of users, payments, contestants  *)
(* and requests.                                                           *)
(***************************************************************************)
EXTENDS CoinLedger, TLAPS

(***************************************************************************)
(* The inductive invariant, part by part.                                  *)
(***************************************************************************)
Crediting == {"success", "claim", "find_wallet", "increment", "credit_create", "record"}
Failing == {"failure", "mark_failed"}
Moving == {"overwrite", "adjust_create", "written"}
OnWallet == Moving \cup {"increment", "credit_create", "record", "ensure_create", "created"}

(* Paystack learns of a payment from the one request that created it.        *)
PurchasesOK ==
    /\ \A p \in Payments :
        /\ payment[p] = "ABSENT" => paystack[p] = "unknown"
        /\ payment[p] # "ABSENT" => buyer[p] \in Users
    /\ \A r \in Reqs : pc[r] = "initialize" =>
        /\ pay[r] \in Payments
        /\ payment[pay[r]] # "ABSENT"
        /\ paystack[pay[r]] = "unknown"
    /\ \A r, q \in Reqs :
        r # q /\ pc[r] = "initialize" /\ pc[q] = "initialize" => pay[r] # pay[q]

(* What a request works on; only paid payments are being credited, and       *)
(* nobody is about to write a negative balance.                              *)
RequestsOK ==
    \A r \in Reqs :
        /\ pc[r] \in Crediting \cup Failing =>
               pay[r] \in Payments /\ payment[pay[r]] # "ABSENT"
        /\ pc[r] \in Crediting => paystack[pay[r]] = "paid"
        /\ pc[r] \in OnWallet => usr[r] \in Users
        /\ pc[r] \in Moving => read[r] + delta[r] >= 0
        /\ con[r] \in Contestants => delta[r] <= 0

(* A read nobody has overtaken is still the committed balance.               *)
FreshOK == \A r \in fresh : pc[r] \in Moving /\ read[r] = balance[usr[r]]

IndInv ==
    /\ TypeOK
    /\ PurchasesOK
    /\ RequestsOK
    /\ FreshOK
    /\ CreditedOnce
    /\ LossNeedsOverlap

LEMMA InitInv == Init => IndInv
<1> SUFFICES ASSUME Init PROVE IndInv
  OBVIOUS
<1>1. TypeOK
  BY CoinAssumption DEF Init, TypeOK, PaymentStatus, Location, Answered
<1>2. PurchasesOK /\ RequestsOK
  BY CoinAssumption DEF Init, PurchasesOK, RequestsOK, Crediting, Failing, Moving, OnWallet
<1>3. FreshOK /\ CreditedOnce /\ LossNeedsOverlap
  BY DEF Init, FreshOK, CreditedOnce, LossNeedsOverlap
<1> QED
  BY <1>1, <1>2, <1>3 DEF IndInv

(***************************************************************************)
(* Steps that leave the tables alone.                                      *)
(***************************************************************************)
LEMMA RollbackStep ==
    ASSUME IndInv, NEW r \in Reqs, NEW answer \in Answered, Rollback(r, answer)
    PROVE  IndInv'
<1> USE DEF IndInv, Rollback, Finish, Goto, table, Answered
<1>1. TypeOK'
  BY DEF TypeOK, Location
<1>2. PurchasesOK'
  BY DEF TypeOK, PurchasesOK
<1>3. RequestsOK'
  BY CoinAssumption DEF TypeOK, RequestsOK, Crediting, Failing, Moving, OnWallet
<1>4. FreshOK'
  BY DEF TypeOK, FreshOK, Moving
<1>5. CreditedOnce' /\ LossNeedsOverlap'
  BY DEF CreditedOnce, LossNeedsOverlap
<1> QED
  BY <1>1, <1>2, <1>3, <1>4, <1>5

(* From one statement to the next, nothing written yet.                      *)
Successive ==
    {<<"success", "claim">>, <<"claim", "find_wallet">>, <<"increment", "record">>,
     <<"credit_create", "record">>, <<"failure", "mark_failed">>,
     <<"overwrite", "written">>, <<"adjust_create", "written">>,
     <<"ensure_create", "created">>}

LEMMA SuccessiveStep ==
    ASSUME IndInv, NEW r \in Reqs, NEW loc, Goto(r, loc), <<pc[r], loc>> \in Successive,
           UNCHANGED <<table, regs, fresh, lost>>,
           lock' = lock \/ \E x \in Rows : lock' = [lock EXCEPT ![x] = r]
    PROVE  IndInv'
<1> USE DEF IndInv, Goto, Successive, table, regs
<1>1. TypeOK'
  BY DEF TypeOK, Location, Answered
<1>2. PurchasesOK'
  BY DEF TypeOK, PurchasesOK
<1>3. RequestsOK'
  BY DEF TypeOK, RequestsOK, Crediting, Failing, Moving, OnWallet
<1>4. FreshOK'
  BY DEF TypeOK, FreshOK, Moving
<1>5. CreditedOnce' /\ LossNeedsOverlap'
  BY DEF CreditedOnce, LossNeedsOverlap
<1> QED
  BY <1>1, <1>2, <1>3, <1>4, <1>5

LEMMA StatementStep ==
    ASSUME IndInv, NEW r \in Reqs,
           \/ FindPaid(r) \/ ClaimPayment(r) \/ IncrementBalance(r) \/ FindUnpaid(r)
           \/ OverwriteBalance(r) \/ CreateWallet(r)
    PROVE  IndInv'
<1>1. ASSUME NEW x, NEW loc, Take(r, x, loc)
      PROVE  Goto(r, loc) /\ lock' = [lock EXCEPT ![x] = r]
  BY <1>1 DEF Take
<1>2. CASE FindPaid(r)
  BY <1>2, RollbackStep, SuccessiveStep DEF FindPaid, Successive, Answered
<1>3. CASE FindUnpaid(r)
  BY <1>3, RollbackStep, SuccessiveStep DEF FindUnpaid, Successive, Answered
<1>4. CASE ClaimPayment(r)
  <2>1. CASE payment[pay[r]] = "SUCCESS"
    BY <1>4, <2>1, RollbackStep DEF ClaimPayment, Answered
  <2>2. CASE payment[pay[r]] # "SUCCESS"
    <3>1. pay[r] \in Rows
      BY <1>4 DEF IndInv, RequestsOK, Crediting, ClaimPayment, Rows
    <3>2. Take(r, pay[r], "find_wallet") /\ pc[r] = "claim"
          /\ UNCHANGED <<table, regs, fresh, lost>>
      BY <1>4, <2>2 DEF ClaimPayment
    <3> QED
      BY <1>1, <3>1, <3>2, SuccessiveStep DEF Successive
  <2> QED
    BY <2>1, <2>2
<1>5. CASE IncrementBalance(r)
  <2>1. usr[r] \in Rows
    BY <1>5 DEF IndInv, RequestsOK, OnWallet, IncrementBalance, Rows
  <2> QED
    BY <1>1, <1>5, <2>1, SuccessiveStep DEF IncrementBalance, Successive
<1>6. CASE OverwriteBalance(r)
  <2>1. usr[r] \in Rows
    BY <1>6 DEF IndInv, RequestsOK, OnWallet, Moving, OverwriteBalance, Rows
  <2> QED
    BY <1>1, <1>6, <2>1, SuccessiveStep DEF OverwriteBalance, Successive
<1>7. CASE CreateWallet(r)
  <2>1. CASE usr[r] \in wallets
    BY <1>7, <2>1, RollbackStep DEF CreateWallet, Answered
  <2>2. CASE usr[r] \notin wallets
    <3>1. usr[r] \in Rows
      BY <1>7 DEF IndInv, RequestsOK, OnWallet, Moving, CreateWallet, Rows
    <3>2. Take(r, usr[r], AfterCreate(pc[r])) /\ UNCHANGED <<table, regs, fresh, lost>>
      BY <1>7, <2>2 DEF CreateWallet
    <3>3. <<pc[r], AfterCreate(pc[r])>> \in Successive
      BY <1>7 DEF CreateWallet, AfterCreate, Successive
    <3> QED
      BY <1>1, <3>1, <3>2, <3>3, SuccessiveStep
  <2> QED
    BY <2>1, <2>2
<1> QED
  BY <1>2, <1>3, <1>4, <1>5, <1>6, <1>7

LEMMA HandleStep ==
    ASSUME IndInv, NEW r \in Reqs, NEW p \in Payments,
           VerifyForUser(r, p) \/ HandlePaystackWebhook(r, p)
    PROVE  IndInv'
<1>1. PICK loc \in {"success", "failure"} :
          HandlePayment(r, p, loc) /\ (loc = "success" => paystack[p] = "paid")
  BY DEF VerifyForUser, HandlePaystackWebhook
<1> USE <1>1 DEF IndInv, HandlePayment, Goto, table
<1>2. TypeOK'
  BY DEF TypeOK, Location, Answered
<1>3. PurchasesOK'
  BY DEF TypeOK, PurchasesOK
<1>4. RequestsOK'
  BY DEF TypeOK, RequestsOK, Crediting, Failing, Moving, OnWallet
<1>5. FreshOK'
  BY DEF TypeOK, FreshOK, Moving, Answered
<1>6. CreditedOnce' /\ LossNeedsOverlap'
  BY DEF CreditedOnce, LossNeedsOverlap
<1> QED
  BY <1>2, <1>3, <1>4, <1>5, <1>6

LEMMA FindWalletStep ==
    ASSUME IndInv, NEW r \in Reqs, FindWallet(r)
    PROVE  IndInv'
<1>1. pay[r] \in Payments /\ buyer[pay[r]] \in Users
  BY DEF IndInv, RequestsOK, PurchasesOK, Crediting, FindWallet
<1> USE <1>1 DEF IndInv, FindWallet, Goto, table
<1>2. TypeOK'
  BY DEF TypeOK, Location
<1>3. PurchasesOK'
  BY DEF TypeOK, PurchasesOK
<1>4. RequestsOK'
  BY DEF TypeOK, RequestsOK, Crediting, Failing, Moving, OnWallet
<1>5. FreshOK'
  BY DEF TypeOK, FreshOK, Moving
<1>6. CreditedOnce' /\ LossNeedsOverlap'
  BY DEF CreditedOnce, LossNeedsOverlap
<1> QED
  BY <1>2, <1>3, <1>4, <1>5, <1>6

LEMMA FindMineStep ==
    ASSUME IndInv, NEW r \in Reqs, NEW u \in Users, FindMine(r, u)
    PROVE  IndInv'
<1> USE DEF IndInv, FindMine, Goto, table
<1>1. TypeOK'
  BY DEF TypeOK, Location
<1>2. PurchasesOK'
  BY DEF TypeOK, PurchasesOK
<1>3. RequestsOK'
  BY DEF TypeOK, RequestsOK, Crediting, Failing, Moving, OnWallet
<1>4. FreshOK'
  BY DEF TypeOK, FreshOK, Moving, Answered
<1>5. CreditedOnce' /\ LossNeedsOverlap'
  BY DEF CreditedOnce, LossNeedsOverlap
<1> QED
  BY <1>1, <1>2, <1>3, <1>4, <1>5

(* cast and adjustWallet, reading: a vote spends, an adjustment votes for    *)
(* nobody.                                                                   *)
LEMMA ReadBalanceStep ==
    ASSUME IndInv, NEW r \in Reqs, NEW u \in Users, NEW c \in Contestants \cup {None},
           NEW amount \in Int, NEW loc \in {"overwrite", "adjust_create"},
           c \in Contestants => amount <= 0, ReadBalance(r, u, c, amount, loc)
    PROVE  IndInv'
<1> USE DEF IndInv, ReadBalance, Goto, table
<1>1. TypeOK'
  BY DEF TypeOK, Location
<1>2. PurchasesOK'
  BY DEF TypeOK, PurchasesOK
<1>3. RequestsOK'
  BY DEF TypeOK, RequestsOK, Crediting, Failing, Moving, OnWallet
<1>4. FreshOK'
  BY DEF TypeOK, FreshOK, Moving
<1>5. CreditedOnce' /\ LossNeedsOverlap'
  BY DEF CreditedOnce, LossNeedsOverlap
<1> QED
  BY <1>1, <1>2, <1>3, <1>4, <1>5

LEMMA CastStep ==
    ASSUME IndInv, NEW r \in Reqs, NEW u \in Users, NEW c \in Contestants,
           NEW coins \in Offers, Cast(r, u, c, coins)
    PROVE  IndInv'
<1>1. -coins \in Int /\ -coins <= 0
  BY CoinAssumption
<1> QED
  BY <1>1, ReadBalanceStep DEF Cast

LEMMA AdjustStep ==
    ASSUME IndInv, NEW r \in Reqs, NEW u \in Users, NEW amount \in Adjustments,
           AdjustWallet(r, u, amount)
    PROVE  IndInv'
<1>1. amount \in Int /\ None \notin Contestants
  BY CoinAssumption
<1>2. PICK loc \in {"overwrite", "adjust_create"} : ReadBalance(r, u, None, amount, loc)
  BY DEF AdjustWallet
<1> QED
  BY <1>1, <1>2, ReadBalanceStep

(***************************************************************************)
(* Steps that write.                                                       *)
(***************************************************************************)
LEMMA PurchaseStep ==
    ASSUME IndInv, NEW r \in Reqs, NEW u \in Users, NEW p \in Payments,
           InitCoinPurchase(r, u, p)
    PROVE  IndInv'
<1> USE DEF IndInv, InitCoinPurchase, Goto
<1>1. TypeOK'
  BY DEF TypeOK, Location, PaymentStatus
<1>2. PurchasesOK'
  BY DEF TypeOK, PurchasesOK
<1>3. RequestsOK'
  BY DEF TypeOK, RequestsOK, Crediting, Failing, Moving, OnWallet
<1>4. FreshOK'
  BY DEF TypeOK, FreshOK, Moving, Answered
<1>5. CreditedOnce' /\ LossNeedsOverlap'
  BY DEF TypeOK, CreditedOnce, LossNeedsOverlap
<1> QED
  BY <1>1, <1>2, <1>3, <1>4, <1>5

LEMMA InitializeStep ==
    ASSUME IndInv, NEW r \in Reqs, InitializePaystack(r)
    PROVE  IndInv'
<1>1. pay[r] \in Payments /\ paystack[pay[r]] = "unknown" /\ payment[pay[r]] # "ABSENT"
  BY DEF IndInv, PurchasesOK, InitializePaystack
<1> USE <1>1 DEF IndInv, InitializePaystack, Finish, Goto
<1>2. TypeOK'
  BY DEF TypeOK, Location, Answered
<1>3. PurchasesOK'
  BY DEF TypeOK, PurchasesOK
<1>4. RequestsOK'
  BY CoinAssumption DEF TypeOK, RequestsOK, Crediting, Failing, Moving, OnWallet
<1>5. FreshOK'
  BY DEF TypeOK, FreshOK, Moving
<1>6. CreditedOnce' /\ LossNeedsOverlap'
  BY DEF TypeOK, CreditedOnce, LossNeedsOverlap
<1> QED
  BY <1>2, <1>3, <1>4, <1>5, <1>6

LEMMA CustomerStep ==
    ASSUME IndInv, NEW p \in Payments, CustomerPays(p)
    PROVE  IndInv'
<1> USE DEF IndInv, CustomerPays, regs
<1>1. TypeOK'
  BY DEF TypeOK
<1>2. PurchasesOK'
  BY DEF TypeOK, PurchasesOK
<1>3. RequestsOK'
  BY DEF TypeOK, RequestsOK, Crediting, Failing, Moving, OnWallet
<1>4. FreshOK'
  BY DEF FreshOK
<1>5. CreditedOnce' /\ LossNeedsOverlap'
  BY DEF TypeOK, CreditedOnce, LossNeedsOverlap
<1> QED
  BY <1>1, <1>2, <1>3, <1>4, <1>5

LEMMA RecordCreditStep ==
    ASSUME IndInv, NEW r \in Reqs, RecordCredit(r)
    PROVE  IndInv'
<1>1. CASE credits[pay[r]] > 0
  BY <1>1, RollbackStep DEF RecordCredit, Answered
<1>2. CASE ~(credits[pay[r]] > 0)
  <2> DEFINE p == pay[r]
             u == usr[r]
  <2>1. /\ pc[r] = "record" /\ p \in Payments /\ u \in Users
        /\ paystack[p] = "paid" /\ payment[p] # "ABSENT" /\ credits[p] = 0
        /\ Coins[p] \in Nat
    BY <1>2, CoinAssumption DEF IndInv, RequestsOK, Crediting, OnWallet, RecordCredit, TypeOK
  <2>2. /\ payment' = [payment EXCEPT ![p] = "SUCCESS"]
        /\ wallets' = wallets \cup {u}
        /\ balance' = [balance EXCEPT ![u] = @ + Coins[p]]
        /\ booked' = [booked EXCEPT ![u] = @ + Coins[p]]
        /\ credits' = [credits EXCEPT ![p] = @ + 1]
        /\ fresh' = {q \in fresh : usr[q] # u} \ {r}
        /\ Finish(r, "idle")
        /\ UNCHANGED <<paystack, buyer, eligible, voted, lost>>
    BY <1>2 DEF RecordCredit, CommitBalance
  <2> HIDE DEF p, u
  <2> USE <2>1, <2>2 DEF IndInv, Finish, Goto
  <2>3. TypeOK'
    BY DEF TypeOK, Location, Answered, PaymentStatus
  <2>4. PurchasesOK'
    BY DEF TypeOK, PurchasesOK
  <2>5. RequestsOK'
    BY CoinAssumption DEF TypeOK, RequestsOK, Crediting, Failing, Moving, OnWallet
  <2>6. FreshOK'
    BY DEF TypeOK, FreshOK, Moving
  <2>7. CreditedOnce'
    BY DEF TypeOK, CreditedOnce
  <2>8. LossNeedsOverlap'
    BY DEF TypeOK, LossNeedsOverlap
  <2> QED
    BY <2>3, <2>4, <2>5, <2>6, <2>7, <2>8
<1> QED
  BY <1>1, <1>2

LEMMA MarkFailedStep ==
    ASSUME IndInv, NEW r \in Reqs, MarkPaymentFailed(r)
    PROVE  IndInv'
<1>1. pay[r] \in Payments /\ payment[pay[r]] # "ABSENT"
  BY DEF IndInv, RequestsOK, Failing, MarkPaymentFailed
<1> USE <1>1 DEF IndInv, MarkPaymentFailed, Finish, Goto
<1>2. TypeOK'
  BY DEF TypeOK, Location, Answered, PaymentStatus
<1>3. PurchasesOK'
  BY DEF TypeOK, PurchasesOK
<1>4. RequestsOK'
  BY CoinAssumption DEF TypeOK, RequestsOK, Crediting, Failing, Moving, OnWallet
<1>5. FreshOK'
  BY DEF TypeOK, FreshOK, Moving
<1>6. CreditedOnce' /\ LossNeedsOverlap'
  BY DEF TypeOK, CreditedOnce, LossNeedsOverlap
<1> QED
  BY <1>2, <1>3, <1>4, <1>5, <1>6

(* The balance written is not negative, and drifts from the books only if    *)
(* it was computed from an old one.                                          *)
LEMMA RecordMovementStep ==
    ASSUME IndInv, NEW r \in Reqs, RecordMovement(r)
    PROVE  IndInv'
<1> DEFINE u == usr[r]
<1>1. /\ pc[r] = "written" /\ u \in Users /\ read[r] \in Nat /\ delta[r] \in Int
      /\ read[r] + delta[r] \in Nat
      /\ r \in fresh => read[r] = balance[u]
  BY DEF IndInv, TypeOK, RequestsOK, OnWallet, Moving, RecordMovement, FreshOK
<1>2. \A k \in Contestants : k = con[r] => (-delta[r]) \div 10 \in Nat
  BY <1>1 DEF IndInv, RequestsOK
<1>3. /\ wallets' = wallets \cup {u}
      /\ balance' = [balance EXCEPT ![u] = read[r] + delta[r]]
      /\ booked' = [booked EXCEPT ![u] = @ + delta[r]]
      /\ voted' = [k \in Contestants |->
                    IF k = con[r] THEN voted[k] + (-delta[r]) \div 10 ELSE voted[k]]
      /\ lost' = IF r \in fresh THEN lost ELSE lost \cup {u}
      /\ fresh' = {q \in fresh : usr[q] # u} \ {r}
      /\ Finish(r, "idle")
      /\ UNCHANGED <<paystack, payment, buyer, credits, eligible>>
  BY DEF RecordMovement, CommitBalance
<1> HIDE DEF u
<1>4. voted' \in [Contestants -> Nat]
  BY <1>2, <1>3 DEF IndInv, TypeOK
<1> USE <1>1, <1>3 DEF IndInv, Finish, Goto
<1>5. TypeOK'
  BY <1>4 DEF TypeOK, Location, Answered
<1>6. PurchasesOK'
  BY DEF TypeOK, PurchasesOK
<1>7. RequestsOK'
  BY CoinAssumption DEF TypeOK, RequestsOK, Crediting, Failing, Moving, OnWallet
<1>8. FreshOK'
  BY DEF TypeOK, FreshOK, Moving
<1>9. CreditedOnce' /\ LossNeedsOverlap'
  BY DEF TypeOK, CreditedOnce, LossNeedsOverlap
<1> QED
  BY <1>5, <1>6, <1>7, <1>8, <1>9

LEMMA CommitWalletStep ==
    ASSUME IndInv, NEW r \in Reqs, CommitWallet(r)
    PROVE  IndInv'
<1>1. usr[r] \in Users
  BY DEF IndInv, RequestsOK, OnWallet, CommitWallet
<1> USE <1>1 DEF IndInv, CommitWallet, Finish, Goto
<1>2. TypeOK'
  BY DEF TypeOK, Location, Answered
<1>3. PurchasesOK'
  BY DEF TypeOK, PurchasesOK
<1>4. RequestsOK'
  BY CoinAssumption DEF TypeOK, RequestsOK, Crediting, Failing, Moving, OnWallet
<1>5. FreshOK'
  BY DEF TypeOK, FreshOK, Moving
<1>6. CreditedOnce' /\ LossNeedsOverlap'
  BY DEF CreditedOnce, LossNeedsOverlap
<1> QED
  BY <1>2, <1>3, <1>4, <1>5, <1>6

LEMMA OutsideStep ==
    ASSUME IndInv, \/ UNCHANGED vars
                   \/ \E c \in Contestants : SetEligible(c)
    PROVE  IndInv'
<1> USE DEF IndInv, SetEligible, vars, table, regs
<1>1. TypeOK'
  BY DEF TypeOK
<1>2. PurchasesOK' /\ RequestsOK'
  BY DEF PurchasesOK, RequestsOK
<1>3. FreshOK' /\ CreditedOnce' /\ LossNeedsOverlap'
  BY DEF FreshOK, CreditedOnce, LossNeedsOverlap
<1> QED
  BY <1>1, <1>2, <1>3

LEMMA StepInv == IndInv /\ [Next]_vars => IndInv'
<1> SUFFICES ASSUME IndInv, [Next]_vars PROVE IndInv'
  OBVIOUS
<1>1. ASSUME NEW r \in Reqs, Start(r) PROVE IndInv'
  BY <1>1, PurchaseStep, HandleStep, CastStep, AdjustStep, FindMineStep DEF Start
<1>2. ASSUME NEW r \in Reqs, Proceed(r) PROVE IndInv'
  BY <1>2, InitializeStep, StatementStep, FindWalletStep, RecordCreditStep, MarkFailedStep,
     RecordMovementStep, CommitWalletStep DEF Proceed
<1>3. ASSUME NEW r \in Reqs, Abort(r) PROVE IndInv'
  BY <1>3, RollbackStep DEF Abort, Answered
<1>4. CASE \/ UNCHANGED vars
           \/ \E c \in Contestants : SetEligible(c)
  BY <1>4, OutsideStep
<1>5. ASSUME NEW p \in Payments, CustomerPays(p) PROVE IndInv'
  BY <1>5, CustomerStep
<1> QED
  BY <1>1, <1>2, <1>3, <1>4, <1>5 DEF Next

(***************************************************************************)
(* CoinLedger implements CoinBank.                                         *)
(***************************************************************************)
(* What a request about to write a balance does with it: an amount an        *)
(* administrator sent, or the price of a vote out of an existing wallet.     *)
Movement(r) ==
    \/ con[r] = None /\ delta[r] \in Adjustments
    \/ /\ con[r] \in Contestants /\ usr[r] \in wallets
       /\ -delta[r] \in Offers /\ -delta[r] >= 10 /\ (-delta[r]) % 10 = 0

(* Coins on their way go to who made the purchase.                           *)
LinksOK ==
    /\ \A p \in Payments : payment[p] = "ABSENT" => buyer[p] = None
    /\ \A r \in Reqs :
        /\ pc[r] \in {"increment", "credit_create", "record"} => usr[r] = buyer[pay[r]]
        /\ pc[r] \in Moving => Movement(r)

LEMMA InitLinks == Init => LinksOK
BY DEF Init, LinksOK, Moving

(* Steps that take a request to its end, and those that take it further.     *)
LEMMA LinksKept ==
    ASSUME IndInv, LinksOK, NEW r \in Reqs,
           \A q \in Reqs \ {r} : pc'[q] = pc[q] /\ UNCHANGED <<pay[q], usr[q], con[q], delta[q]>>,
           pc'[r] \in {"increment", "credit_create", "record"} => usr'[r] = buyer'[pay'[r]],
           pc'[r] \in Moving => Movement(r)',
           wallets \subseteq wallets',
           \A p \in Payments :
               /\ payment'[p] = "ABSENT" => buyer'[p] = None
               /\ payment[p] # "ABSENT" => buyer'[p] = buyer[p]
    PROVE  LinksOK'
<1> SUFFICES ASSUME NEW q \in Reqs
             PROVE  /\ pc'[q] \in {"increment", "credit_create", "record"}
                           => usr'[q] = buyer'[pay'[q]]
                    /\ pc'[q] \in Moving => Movement(q)'
  BY DEF LinksOK, Moving
<1>1. CASE q = r
  BY <1>1
<1>2. CASE q # r
  <2>1. pc'[q] = pc[q] /\ pay'[q] = pay[q] /\ usr'[q] = usr[q] /\ con'[q] = con[q] /\ delta'[q] = delta[q]
    BY <1>2
  <2>2. pc[q] \in {"increment", "credit_create", "record"} =>
            usr[q] = buyer[pay[q]] /\ buyer'[pay[q]] = buyer[pay[q]]
    BY DEF LinksOK, IndInv, RequestsOK, Crediting
  <2>3. pc[q] \in Moving => Movement(q)
    BY DEF LinksOK
  <2> QED
    BY <2>1, <2>2, <2>3 DEF Movement
<1> QED
  BY <1>1, <1>2

LEMMA EndLinks ==
    ASSUME IndInv, LinksOK, NEW r \in Reqs, NEW answer \in Answered, Finish(r, answer),
           UNCHANGED buyer, wallets \subseteq wallets',
           \A p \in Payments : payment'[p] = "ABSENT" => payment[p] = "ABSENT"
    PROVE  LinksOK'
<1>1. \A q \in Reqs \ {r} : pc'[q] = pc[q] /\ UNCHANGED <<pay[q], usr[q], con[q], delta[q]>>
  BY DEF Finish, Goto, IndInv, TypeOK
<1>2. pc'[r] \in Answered
  BY DEF Finish, Goto, IndInv, TypeOK
<1>3. \A p \in Payments : payment'[p] = "ABSENT" => buyer'[p] = None
  BY DEF LinksOK
<1> QED
  BY <1>1, <1>2, <1>3, LinksKept DEF Answered, Moving

LEMMA StatementLinks ==
    ASSUME IndInv, LinksOK, NEW r \in Reqs, NEW loc, Goto(r, loc),
           <<pc[r], loc>> \in Successive, UNCHANGED <<table, regs>>
    PROVE  LinksOK'
<1>1. /\ pc'[r] = loc /\ \A q \in Reqs \ {r} : pc'[q] = pc[q]
      /\ UNCHANGED <<payment, buyer, wallets, pay, usr, con, delta>>
  BY DEF Goto, IndInv, TypeOK, table, regs
<1>2. loc \in {"increment", "credit_create", "record"} => usr[r] = buyer[pay[r]]
  BY DEF LinksOK, Successive
<1>3. loc \in Moving => Movement(r)
  BY DEF LinksOK, Successive, Moving
<1>4. Movement(r) => Movement(r)'
  BY <1>1 DEF Movement
<1>5. \A p \in Payments : payment[p] = "ABSENT" => buyer[p] = None
  BY DEF LinksOK
<1> QED
  BY <1>1, <1>2, <1>3, <1>4, <1>5, LinksKept

LEMMA ReadLinks ==
    ASSUME IndInv, LinksOK, NEW r \in Reqs, NEW u \in Users, NEW c, NEW amount, NEW loc \in Moving,
           ReadBalance(r, u, c, amount, loc),
           \/ c = None /\ amount \in Adjustments
           \/ /\ c \in Contestants /\ u \in wallets
              /\ -amount \in Offers /\ -amount >= 10 /\ (-amount) % 10 = 0
    PROVE  LinksOK'
<1>1. /\ pc'[r] = loc /\ usr'[r] = u /\ con'[r] = c /\ delta'[r] = amount
      /\ \A q \in Reqs \ {r} : pc'[q] = pc[q] /\ UNCHANGED <<pay[q], usr[q], con[q], delta[q]>>
      /\ UNCHANGED <<payment, buyer, wallets>>
  BY DEF ReadBalance, Goto, IndInv, TypeOK, table
<1>2. Movement(r)'
  BY <1>1 DEF Movement
<1>3. \A p \in Payments : payment[p] = "ABSENT" => buyer[p] = None
  BY DEF LinksOK
<1> QED
  BY <1>1, <1>2, <1>3, LinksKept DEF Moving

LEMMA StepLinks == IndInv /\ LinksOK /\ [Next]_vars => LinksOK'
<1> SUFFICES ASSUME IndInv, LinksOK, [Next]_vars PROVE LinksOK'
  OBVIOUS
<1>1. ASSUME UNCHANGED <<payment, buyer, wallets, pc, regs>> PROVE LinksOK'
  BY <1>1 DEF LinksOK, Movement, regs
<1>2. ASSUME NEW r \in Reqs, NEW answer \in Answered, Rollback(r, answer) PROVE LinksOK'
  BY <1>2, EndLinks DEF Rollback, table
<1>3. ASSUME NEW r \in Reqs, NEW x, NEW loc, Take(r, x, loc) PROVE Goto(r, loc)
  BY <1>3 DEF Take
<1>4. ASSUME NEW r \in Reqs, NEW u \in Users, NEW p \in Payments, InitCoinPurchase(r, u, p)
      PROVE  LinksOK'
  <2>1. /\ payment[p] = "ABSENT" /\ payment' = [payment EXCEPT ![p] = "PENDING"]
        /\ buyer' = [buyer EXCEPT ![p] = u] /\ wallets' = wallets
    BY <1>4 DEF InitCoinPurchase
  <2>2. pc'[r] = "initialize"
        /\ \A q \in Reqs \ {r} : pc'[q] = pc[q] /\ UNCHANGED <<pay[q], usr[q], con[q], delta[q]>>
    BY <1>4 DEF InitCoinPurchase, Goto, IndInv, TypeOK
  <2>3. \A q \in Payments : /\ payment'[q] = "ABSENT" => buyer'[q] = None
                            /\ payment[q] # "ABSENT" => buyer'[q] = buyer[q]
    BY <2>1 DEF LinksOK, IndInv, TypeOK
  <2> QED
    BY <2>1, <2>2, <2>3, LinksKept DEF Moving
<1>5. ASSUME NEW r \in Reqs, NEW p \in Payments, VerifyForUser(r, p) \/ HandlePaystackWebhook(r, p)
      PROVE  LinksOK'
  <2>1. PICK loc \in {"success", "failure"} : HandlePayment(r, p, loc)
    BY <1>5 DEF VerifyForUser, HandlePaystackWebhook
  <2>2. /\ pc'[r] = loc /\ UNCHANGED <<payment, buyer, wallets>>
        /\ \A q \in Reqs \ {r} : pc'[q] = pc[q] /\ UNCHANGED <<pay[q], usr[q], con[q], delta[q]>>
    BY <2>1 DEF HandlePayment, Goto, IndInv, TypeOK, table
  <2> QED
    BY <2>2, LinksKept DEF LinksOK, Moving
<1>6. ASSUME NEW r \in Reqs, NEW u \in Users, NEW c \in Contestants, NEW n \in Offers, Cast(r, u, c, n)
      PROVE  LinksOK'
  <2>1. ReadBalance(r, u, c, -n, "overwrite") /\ n >= 10 /\ n % 10 = 0 /\ u \in wallets
    BY <1>6 DEF Cast
  <2>2. -(-n) = n
    BY CoinAssumption
  <2> QED
    BY <2>1, <2>2, ReadLinks DEF Moving
<1>7. ASSUME NEW r \in Reqs, NEW u \in Users, NEW n \in Adjustments, AdjustWallet(r, u, n)
      PROVE  LinksOK'
  <2>1. PICK loc \in {"overwrite", "adjust_create"} : ReadBalance(r, u, None, n, loc)
    BY <1>7 DEF AdjustWallet
  <2> QED
    BY <2>1, ReadLinks DEF Moving
<1>8. ASSUME NEW r \in Reqs, NEW u \in Users, FindMine(r, u) PROVE LinksOK'
  <2>1. /\ pc'[r] = "ensure_create" /\ UNCHANGED <<payment, buyer, wallets>>
        /\ \A q \in Reqs \ {r} : pc'[q] = pc[q] /\ UNCHANGED <<pay[q], usr[q], con[q], delta[q]>>
    BY <1>8 DEF FindMine, Goto, IndInv, TypeOK, table
  <2> QED
    BY <2>1, LinksKept DEF LinksOK, Moving
<1>9. ASSUME NEW r \in Reqs, InitializePaystack(r) PROVE LinksOK'
  BY <1>9, EndLinks DEF InitializePaystack, Answered
<1>10. ASSUME NEW r \in Reqs, FindPaid(r) PROVE LinksOK'
  BY <1>2, <1>10, StatementLinks DEF FindPaid, Successive, Answered
<1>11. ASSUME NEW r \in Reqs, ClaimPayment(r) PROVE LinksOK'
  BY <1>2, <1>3, <1>11, StatementLinks DEF ClaimPayment, Successive, Answered
<1>12. ASSUME NEW r \in Reqs, FindWallet(r) PROVE LinksOK'
  <2>1. /\ pc'[r] \in {"increment", "credit_create"} /\ usr'[r] = buyer[pay[r]]
        /\ UNCHANGED <<payment, buyer, wallets, pay>>
        /\ \A q \in Reqs \ {r} : pc'[q] = pc[q] /\ UNCHANGED <<pay[q], usr[q], con[q], delta[q]>>
    BY <1>12 DEF FindWallet, Goto, IndInv, TypeOK, table
  <2> QED
    BY <2>1, LinksKept DEF LinksOK, Moving
<1>13. ASSUME NEW r \in Reqs, IncrementBalance(r) PROVE LinksOK'
  BY <1>3, <1>13, StatementLinks DEF IncrementBalance, Successive
<1>14. ASSUME NEW r \in Reqs, RecordCredit(r) PROVE LinksOK'
  <2>1. CASE credits[pay[r]] > 0
    BY <1>2, <1>14, <2>1 DEF RecordCredit, Answered
  <2>2. CASE ~ (credits[pay[r]] > 0)
    <3>1. /\ Finish(r, "idle") /\ buyer' = buyer /\ wallets \subseteq wallets'
          /\ payment' = [payment EXCEPT ![pay[r]] = "SUCCESS"]
      BY <1>14, <2>2 DEF RecordCredit, CommitBalance
    <3>2. \A p \in Payments : payment'[p] = "ABSENT" => payment[p] = "ABSENT"
      BY <3>1 DEF IndInv, TypeOK
    <3> QED
      BY <3>1, <3>2, EndLinks DEF Answered
  <2> QED
    BY <2>1, <2>2
<1>15. ASSUME NEW r \in Reqs, FindUnpaid(r) PROVE LinksOK'
  BY <1>2, <1>15, StatementLinks DEF FindUnpaid, Successive, Answered
<1>16. ASSUME NEW r \in Reqs, MarkPaymentFailed(r) PROVE LinksOK'
  <2>1. \A p \in Payments : payment'[p] = "ABSENT" => payment[p] = "ABSENT"
    BY <1>16 DEF MarkPaymentFailed, IndInv, TypeOK
  <2> QED
    BY <1>16, <2>1, EndLinks DEF MarkPaymentFailed, Answered
<1>17. ASSUME NEW r \in Reqs, OverwriteBalance(r) PROVE LinksOK'
  BY <1>3, <1>17, StatementLinks DEF OverwriteBalance, Successive
<1>18. ASSUME NEW r \in Reqs, RecordMovement(r) \/ CommitWallet(r) PROVE LinksOK'
  BY <1>18, EndLinks DEF RecordMovement, CommitBalance, CommitWallet, Answered
<1>19. ASSUME NEW r \in Reqs, CreateWallet(r) PROVE LinksOK'
  <2>1. CASE usr[r] \in wallets
    BY <1>2, <1>19, <2>1 DEF CreateWallet, Answered
  <2>2. CASE usr[r] \notin wallets
    <3>1. /\ Goto(r, AfterCreate(pc[r])) /\ UNCHANGED <<table, regs>>
      BY <1>3, <1>19, <2>2 DEF CreateWallet
    <3>2. <<pc[r], AfterCreate(pc[r])>> \in Successive
      BY <1>19 DEF CreateWallet, AfterCreate, Successive
    <3> QED
      BY <3>1, <3>2, StatementLinks
  <2> QED
    BY <2>1, <2>2
<1>20. ASSUME NEW r \in Reqs, Abort(r) PROVE LinksOK'
  BY <1>2, <1>20 DEF Abort, Answered
<1>21. CASE UNCHANGED vars \/ (\E c \in Contestants : SetEligible(c))
            \/ (\E p \in Payments : CustomerPays(p))
  BY <1>1, <1>21 DEF vars, table, regs, SetEligible, CustomerPays
<1>22. ASSUME NEW r \in Reqs, Start(r) PROVE LinksOK'
  BY <1>4, <1>5, <1>6, <1>7, <1>8, <1>22 DEF Start
<1>23. ASSUME NEW r \in Reqs, Proceed(r) PROVE LinksOK'
  BY <1>9, <1>10, <1>11, <1>12, <1>13, <1>14, <1>15, <1>16, <1>17, <1>18, <1>19, <1>23 DEF Proceed
<1> QED
  BY <1>20, <1>21, <1>22, <1>23 DEF Next

(* Steps the bank does not see.                                              *)
Unseen ==
    /\ UNCHANGED <<buyer, credits, wallets, balance, booked, voted, lost>>
    /\ \A p \in Payments : paystack'[p] = "paid" <=> paystack[p] = "paid"

LEMMA UnseenStutters == ASSUME Unseen PROVE UNCHANGED Bank!vars
<1>1. {p \in Payments : paystack'[p] = "paid"} = {p \in Payments : paystack[p] = "paid"}
  BY DEF Unseen
<1>2. {p \in Payments : credits'[p] > 0} = {p \in Payments : credits[p] > 0}
  BY DEF Unseen
<1> QED
  BY <1>1, <1>2 DEF Unseen, Bank!vars

LEMMA PurchaseIsPurchase ==
    ASSUME IndInv, LinksOK, NEW r \in Reqs, NEW u \in Users, NEW p \in Payments,
           InitCoinPurchase(r, u, p)
    PROVE  Bank!Purchase(p, u)
BY DEF InitCoinPurchase, LinksOK, Bank!Purchase

LEMMA CustomerIsPay ==
    ASSUME IndInv, NEW p \in Payments, CustomerPays(p)
    PROVE  Bank!Pay(p)
<1>1. buyer[p] # None
  BY CoinAssumption DEF CustomerPays, IndInv, PurchasesOK
<1>2. {q \in Payments : paystack'[q] = "paid"} = {q \in Payments : paystack[q] = "paid"} \cup {p}
  BY DEF CustomerPays, IndInv, TypeOK
<1> QED
  BY <1>1, <1>2 DEF CustomerPays, Bank!Pay

LEMMA CreditIsCredit ==
    ASSUME IndInv, LinksOK, NEW r \in Reqs, RecordCredit(r), ~ (credits[pay[r]] > 0)
    PROVE  \E p \in Payments : Bank!Credit(p)
<1>0. PICK p \in Payments, u \in Users : p = pay[r] /\ u = usr[r]
  BY DEF IndInv, RequestsOK, Crediting, OnWallet, RecordCredit
<1>1. /\ pc[r] = "record" /\ p \in Payments /\ u \in Users /\ u = buyer[p]
      /\ paystack[p] = "paid" /\ credits[p] = 0 /\ Coins[p] \in Nat /\ balance[u] \in Nat
  BY <1>0, CoinAssumption
  DEF IndInv, LinksOK, RequestsOK, Crediting, OnWallet, RecordCredit, TypeOK
<1>2. /\ wallets' = wallets \cup {u}
      /\ balance' = [balance EXCEPT ![u] = @ + Coins[p]]
      /\ booked' = [booked EXCEPT ![u] = @ + Coins[p]]
      /\ credits' = [credits EXCEPT ![p] = @ + 1]
      /\ UNCHANGED <<paystack, buyer, voted, lost>>
  BY <1>0 DEF RecordCredit
<1>3. credits \in [Payments -> Nat]
  BY DEF IndInv, TypeOK
<1>4. {q \in Payments : credits'[q] > 0} = {q \in Payments : credits[q] > 0} \cup {p}
  BY <1>1, <1>2, <1>3
<1>5. p \in {q \in Payments : paystack[q] = "paid"} \ {q \in Payments : credits[q] > 0}
  BY <1>1
<1>6. Bank!Book(buyer[p], Coins[p]) /\ Bank!Exactly(buyer[p], Coins[p])
  BY <1>1, <1>2 DEF Bank!Book, Bank!Exactly
<1>7. Bank!Credit(p)
  BY <1>2, <1>4, <1>5, <1>6 DEF Bank!Credit
<1> QED
  BY <1>7

(* A balance written back is exact, or its user is noted.                    *)
LEMMA MovementIsBooked ==
    ASSUME IndInv, LinksOK, NEW r \in Reqs, RecordMovement(r),
           NEW u \in Users, NEW n \in Int, u = usr[r], n = delta[r]
    PROVE  Bank!Book(u, n) /\ (Bank!Exactly(u, n) \/ Bank!FromOld(u, n))
<1>1. /\ read[r] \in Nat /\ read[r] + n \in Nat
      /\ r \in fresh => read[r] = balance[u]
  BY DEF IndInv, TypeOK, RequestsOK, OnWallet, Moving, RecordMovement, FreshOK
<1>2. /\ wallets' = wallets \cup {u}
      /\ balance' = [balance EXCEPT ![u] = read[r] + n]
      /\ booked' = [booked EXCEPT ![u] = @ + n]
      /\ lost' = IF r \in fresh THEN lost ELSE lost \cup {u}
  BY DEF RecordMovement
<1>3. balance \in [Users -> Nat]
  BY DEF IndInv, TypeOK
<1>4. Bank!Book(u, n)
  BY <1>2 DEF Bank!Book
<1>5. ASSUME r \in fresh PROVE Bank!Exactly(u, n)
  <2>1. read[r] = balance[u]
    BY <1>1, <1>5
  <2>2. balance[u] + n >= 0
    BY <1>1, <2>1
  <2>3. lost' = lost
    BY <1>2, <1>5
  <2>4. balance' = [balance EXCEPT ![u] = balance[u] + n]
    BY <1>2, <2>1
  <2> QED
    BY <2>2, <2>3, <2>4 DEF Bank!Exactly
<1>6. ASSUME r \notin fresh PROVE Bank!FromOld(u, n)
  <2>1. balance' \in [Users -> Nat] /\ balance'[u] = read[r] + n
        /\ \A w \in Users \ {u} : balance'[w] = balance[w]
    BY <1>1, <1>2, <1>3
  <2>2. balance'[u] - n >= 0
    BY <1>1, <2>1
  <2> QED
    BY <1>2, <1>6, <2>1, <2>2 DEF Bank!FromOld
<1> QED
  BY <1>4, <1>5, <1>6

LEMMA MovementIsMovement ==
    ASSUME IndInv, LinksOK, NEW r \in Reqs, RecordMovement(r)
    PROVE  Bank!Next
<1>1. PICK u \in Users, d \in Int, c \in Contestants \cup {None} :
          u = usr[r] /\ d = delta[r] /\ c = con[r]
  BY DEF IndInv, TypeOK, RequestsOK, OnWallet, Moving, RecordMovement
<1>2. Bank!Book(u, d) /\ (Bank!Exactly(u, d) \/ Bank!FromOld(u, d))
  BY <1>1, MovementIsBooked
<1>3. \/ c = None /\ d \in Adjustments
      \/ c \in Contestants /\ u \in wallets /\ -d \in Offers /\ -d >= 10 /\ (-d) % 10 = 0
  BY <1>1 DEF LinksOK, Moving, Movement, RecordMovement
<1>4. /\ voted' = [k \in Contestants |-> IF k = c THEN voted[k] + (-d) \div 10 ELSE voted[k]]
      /\ UNCHANGED <<paystack, buyer, credits>>
  BY <1>1 DEF RecordMovement
<1>5. voted \in [Contestants -> Nat] /\ None \notin Contestants
  BY CoinAssumption DEF IndInv, TypeOK
<1>6. CASE c = None /\ d \in Adjustments
  <2>1. voted' = voted
    BY <1>4, <1>5, <1>6
  <2>2. Bank!Adjust(u, d)
    BY <1>2, <1>4, <2>1 DEF Bank!Adjust
  <2> QED
    BY <1>6, <2>2 DEF Bank!Next
<1>7. CASE c \in Contestants /\ u \in wallets /\ -d \in Offers /\ -d >= 10 /\ (-d) % 10 = 0
  <2>1. PICK n \in Offers : n = -d
    BY <1>7
  <2>2. n \in Int /\ d = -n /\ n >= 10 /\ n % 10 = 0
    BY <1>7, <2>1, CoinAssumption
  <2>3. voted' = [voted EXCEPT ![c] = @ + n \div 10]
    BY <1>4, <1>5, <1>7, <2>1
  <2>4. Bank!Book(u, -n) /\ (Bank!Exactly(u, -n) \/ Bank!FromOld(u, -n))
    BY <1>2, <2>2
  <2>5. Bank!Spend(u, c, n)
    BY <1>4, <1>7, <2>2, <2>3, <2>4 DEF Bank!Spend
  <2> QED
    BY <1>7, <2>5 DEF Bank!Next
<1> QED
  BY <1>3, <1>6, <1>7

LEMMA StepImplements == IndInv /\ LinksOK /\ [Next]_vars => [Bank!Next]_(Bank!vars)
<1> SUFFICES ASSUME IndInv, LinksOK, [Next]_vars PROVE [Bank!Next]_(Bank!vars)
  OBVIOUS
<1>1. ASSUME Unseen PROVE [Bank!Next]_(Bank!vars)
  BY <1>1, UnseenStutters
<1>2. ASSUME UNCHANGED table, UNCHANGED lost PROVE Unseen
  BY <1>2 DEF table, Unseen
<1>3. ASSUME NEW r \in Reqs, NEW answer, Rollback(r, answer) PROVE Unseen
  BY <1>2, <1>3 DEF Rollback
<1>4. ASSUME NEW r \in Reqs, Start(r) PROVE Unseen \/ Bank!Next
  <2>1. ASSUME NEW u \in Users, NEW p \in Payments, InitCoinPurchase(r, u, p) PROVE Bank!Next
    BY <2>1, PurchaseIsPurchase DEF Bank!Next
  <2>2. ASSUME NEW p \in Payments, VerifyForUser(r, p) \/ HandlePaystackWebhook(r, p) PROVE Unseen
    BY <1>2, <2>2 DEF VerifyForUser, HandlePaystackWebhook, HandlePayment
  <2>3. ASSUME NEW u \in Users, NEW c, NEW amount, NEW loc, ReadBalance(r, u, c, amount, loc)
        PROVE  Unseen
    BY <1>2, <2>3 DEF ReadBalance
  <2>4. ASSUME NEW u \in Users, FindMine(r, u) PROVE Unseen
    BY <1>2, <2>4 DEF FindMine
  <2> QED
    BY <1>4, <2>1, <2>2, <2>3, <2>4 DEF Start, Cast, AdjustWallet
<1>5. ASSUME NEW r \in Reqs, Abort(r) PROVE Unseen
  BY <1>3, <1>5 DEF Abort
<1>6. ASSUME NEW r \in Reqs,
             \/ FindPaid(r) \/ ClaimPayment(r) \/ FindWallet(r) \/ IncrementBalance(r)
             \/ FindUnpaid(r) \/ OverwriteBalance(r) \/ CreateWallet(r)
      PROVE  Unseen
  BY <1>2, <1>3, <1>6
  DEF FindPaid, ClaimPayment, FindWallet, IncrementBalance, FindUnpaid, OverwriteBalance, CreateWallet
<1>7. ASSUME NEW r \in Reqs, InitializePaystack(r) PROVE Unseen
  <2>1. paystack[pay[r]] = "unknown"
    BY <1>7 DEF InitializePaystack, IndInv, PurchasesOK
  <2> QED
    BY <1>7, <2>1 DEF InitializePaystack, Unseen, IndInv, TypeOK
<1>8. ASSUME NEW r \in Reqs, MarkPaymentFailed(r) PROVE Unseen
  BY <1>8 DEF MarkPaymentFailed, Unseen
<1>9. ASSUME NEW r \in Reqs, RecordCredit(r) PROVE Unseen \/ Bank!Next
  <2>1. CASE credits[pay[r]] > 0
    BY <1>3, <1>9, <2>1 DEF RecordCredit
  <2>2. CASE ~ (credits[pay[r]] > 0)
    <3>1. \E p \in Payments : Bank!Credit(p)
      BY <1>9, <2>2, CreditIsCredit
    <3> QED
      BY <3>1 DEF Bank!Next
  <2> QED
    BY <2>1, <2>2
<1>10. ASSUME NEW r \in Reqs, CommitWallet(r) PROVE Bank!Next
  <2>1. usr[r] \in Users
    BY <1>10 DEF CommitWallet, IndInv, RequestsOK, OnWallet
  <2>2. Bank!OpenWallet(usr[r])
    BY <1>10 DEF CommitWallet, Bank!OpenWallet
  <2> QED
    BY <2>1, <2>2 DEF Bank!Next
<1>11. ASSUME NEW c \in Contestants, SetEligible(c) PROVE Unseen
  BY <1>11 DEF SetEligible, Unseen
<1>12. ASSUME NEW p \in Payments, CustomerPays(p) PROVE Bank!Next
  BY <1>12, CustomerIsPay DEF Bank!Next
<1>13. CASE UNCHANGED vars
  BY <1>1, <1>2, <1>13 DEF vars
<1>14. ASSUME NEW r \in Reqs, Proceed(r) PROVE Unseen \/ Bank!Next
  BY <1>6, <1>7, <1>8, <1>9, <1>10, <1>14, MovementIsMovement DEF Proceed
<1> QED
  BY <1>1, <1>4, <1>5, <1>11, <1>12, <1>13, <1>14 DEF Next

LEMMA InitImplements == Init => Bank!Init
BY DEF Init, Bank!Init

(***************************************************************************)
(* What a lock in force says of its holder.                                *)
(***************************************************************************)
LocksHeld ==
    \A r \in Reqs :
        /\ \A p \in Payments : lock[p] = r =>
               pay[r] = p /\ pc[r] \in {"find_wallet", "increment", "credit_create", "record"}
        /\ \A u \in Users : lock[u] = r =>
               usr[r] = u /\ pc[r] \in {"record", "written", "created"}

LEMMA InitHolds == Init => LocksHeld
BY CoinAssumption DEF Init, LocksHeld, Rows

(* A request that ends lets go of every row.                                 *)
LEMMA EndHolds ==
    ASSUME IndInv, LocksHeld, NEW r \in Reqs, NEW answer, Finish(r, answer)
    PROVE  LocksHeld'
<1>1. \A q \in Reqs \ {r} : pc'[q] = pc[q] /\ pay'[q] = pay[q] /\ usr'[q] = usr[q]
  BY DEF Finish, Goto, IndInv, TypeOK
<1>2. \A q \in Reqs, x \in Rows : lock'[x] = q => q # r /\ lock[x] = q
  BY CoinAssumption DEF Finish, IndInv, TypeOK
<1> QED
  BY <1>1, <1>2 DEF LocksHeld, Rows

(* A request takes no lock while it holds none, or locks no other row.       *)
LEMMA GoHolds ==
    ASSUME IndInv, LocksHeld, NEW r \in Reqs, NEW loc, Goto(r, loc), UNCHANGED lock,
           \A q \in Reqs \ {r} : pay'[q] = pay[q] /\ usr'[q] = usr[q],
           \/ pc[r] \in Answered \cup {"success", "failure"}
           \/ pc[r] = "find_wallet" /\ pay'[r] = pay[r] /\ loc \in {"increment", "credit_create"}
    PROVE  LocksHeld'
<1>1. \A q \in Reqs \ {r} : pc'[q] = pc[q]
  BY DEF Goto, IndInv, TypeOK
<1>2. \A x \in Rows : lock[x] = r =>
         pc[r] = "find_wallet" /\ x \in Payments /\ pay'[r] = x /\ pc'[r] \in {"increment", "credit_create"}
  BY DEF Goto, IndInv, TypeOK, LocksHeld, Rows, Answered
<1> QED
  BY <1>1, <1>2, CoinAssumption DEF LocksHeld, Rows

LEMMA TakeHolds ==
    ASSUME IndInv, LocksHeld, NEW r \in Reqs, NEW x, NEW loc, Take(r, x, loc),
           UNCHANGED <<pay, usr>>,
           \/ pc[r] = "claim" /\ x = pay[r] /\ loc = "find_wallet"
           \/ pc[r] \in {"increment", "credit_create"} /\ x = usr[r] /\ loc = "record"
           \/ pc[r] \in {"overwrite", "adjust_create"} /\ x = usr[r] /\ loc = "written"
           \/ pc[r] = "ensure_create" /\ x = usr[r] /\ loc = "created"
    PROVE  LocksHeld'
<1>1. \A q \in Reqs \ {r} : pc'[q] = pc[q]
  BY DEF Take, Goto, IndInv, TypeOK
<1>2. pc'[r] = loc
  BY DEF Take, Goto, IndInv, TypeOK
<1>3. \A q \in Reqs, y \in Rows : lock'[y] = q => (q = r /\ y = x) \/ lock[y] = q
  BY DEF Take, IndInv, TypeOK
<1>4. IF pc[r] = "claim" THEN x \in Payments ELSE x \in Users
  BY DEF IndInv, RequestsOK, Crediting, OnWallet, Moving
<1> QED
  BY <1>1, <1>2, <1>3, <1>4, CoinAssumption DEF LocksHeld, Rows

LEMMA StepHolds == IndInv /\ LocksHeld /\ [Next]_vars => LocksHeld'
<1> SUFFICES ASSUME IndInv, LocksHeld, [Next]_vars PROVE LocksHeld'
  OBVIOUS
<1>1. ASSUME NEW r \in Reqs, Start(r) PROVE LocksHeld'
  <2>1. ASSUME NEW u \in Users, NEW p \in Payments, InitCoinPurchase(r, u, p) PROVE LocksHeld'
    BY <2>1, GoHolds DEF InitCoinPurchase, IndInv, TypeOK
  <2>2. ASSUME NEW p \in Payments, NEW loc, HandlePayment(r, p, loc) PROVE LocksHeld'
    BY <2>2, GoHolds DEF HandlePayment, IndInv, TypeOK
  <2>3. ASSUME NEW u \in Users, NEW c, NEW n, NEW loc, ReadBalance(r, u, c, n, loc) PROVE LocksHeld'
    BY <2>3, GoHolds DEF ReadBalance, IndInv, TypeOK
  <2>4. ASSUME NEW u \in Users, FindMine(r, u) PROVE LocksHeld'
    BY <2>4, GoHolds DEF FindMine, IndInv, TypeOK
  <2> QED
    BY <1>1, <2>1, <2>2, <2>3, <2>4 DEF Start, VerifyForUser, HandlePaystackWebhook, Cast,
       AdjustWallet
<1>2. ASSUME NEW r \in Reqs, Proceed(r) PROVE LocksHeld'
  <2>1. ASSUME NEW answer, Rollback(r, answer) PROVE LocksHeld'
    BY <2>1, EndHolds DEF Rollback
  <2>2. CASE FindPaid(r) \/ FindUnpaid(r) \/ FindWallet(r)
    BY <2>1, <2>2, GoHolds DEF FindPaid, FindUnpaid, FindWallet, IndInv, TypeOK, regs
  <2>3. CASE ClaimPayment(r) \/ IncrementBalance(r) \/ OverwriteBalance(r)
    BY <2>1, <2>3, TakeHolds DEF ClaimPayment, IncrementBalance, OverwriteBalance, regs
  <2>4. CASE CreateWallet(r)
    BY <2>1, <2>4, TakeHolds DEF CreateWallet, AfterCreate, regs
  <2>5. ASSUME \/ InitializePaystack(r) \/ RecordCredit(r) \/ MarkPaymentFailed(r)
               \/ RecordMovement(r) \/ CommitWallet(r)
        PROVE  LocksHeld'
    BY <2>1, <2>5, EndHolds DEF InitializePaystack, RecordCredit, MarkPaymentFailed,
       RecordMovement, CommitWallet, CommitBalance
  <2> QED
    BY <1>2, <2>2, <2>3, <2>4, <2>5 DEF Proceed
<1>3. ASSUME NEW r \in Reqs, Abort(r) PROVE LocksHeld'
  BY <1>3, EndHolds DEF Abort, Rollback
<1>4. ASSUME UNCHANGED <<pc, regs, lock>> PROVE LocksHeld'
  BY <1>4 DEF LocksHeld, regs
<1> QED
  BY <1>1, <1>2, <1>3, <1>4 DEF Next, CustomerPays, SetEligible, vars

(* Who holds a wallet waits for nothing; who holds a payment waits at most   *)
(* for a wallet.                                                             *)
LEMMA WaitsEnd == IndInv /\ LocksHeld => NoDeadlock
<1> SUFFICES ASSUME IndInv, LocksHeld, NEW S \in SUBSET Reqs,
                    \A q \in S : \E x \in Wants(q) : lock[x] \in S
             PROVE  S = {}
  BY DEF NoDeadlock
<1>1. \A q \in S : pc[q] \notin {"find_wallet", "record", "written", "created"}
  BY DEF Wants
<1>2. \A u \in Users : lock[u] \notin S
  BY <1>1 DEF LocksHeld
<1>3. \A q \in S : pc[q] \notin OnWallet
  <2>1. ASSUME NEW q \in S, pc[q] \in OnWallet PROVE FALSE
    <3>1. usr[q] \in Users
      BY <2>1 DEF IndInv, RequestsOK
    <3>2. Wants(q) \subseteq {usr[q]}
      BY <2>1 DEF Wants, OnWallet, Moving
    <3> QED
      BY <3>1, <3>2, <1>2
  <2> QED
    BY <2>1
<1>4. \A p \in Payments : lock[p] \notin S
  BY <1>1, <1>3 DEF LocksHeld, OnWallet
<1>5. \A q \in S : Wants(q) \subseteq Payments
  BY <1>3 DEF Wants, OnWallet, Moving, IndInv, RequestsOK, Crediting, Failing
<1> QED
  BY <1>4, <1>5

(***************************************************************************)
(* The theorems.                                                           *)
(***************************************************************************)
(* Payments, requests and reads stay consistent in every reachable state.    *)
THEOREM Invariance == Spec => []IndInv
BY InitInv, StepInv, PTL DEF Spec

(* Every variable stays in its domain; no wallet balance goes negative.      *)
THEOREM BalancesNatural == Spec => []TypeOK
<1>1. IndInv => TypeOK
  BY DEF IndInv
<1> QED
  BY <1>1, Invariance, PTL

(* However webhooks and verifications repeat and race, a payment is credited *)
(* at most once, only when paid, and is SUCCESS only when credited           *)
(* (processSuccessfulPayment, markPaymentFailed).                            *)
THEOREM PaymentsCreditedOnce == Spec => []CreditedOnce
<1>1. IndInv => CreditedOnce
  BY DEF IndInv
<1> QED
  BY <1>1, Invariance, PTL

(* Balances drift from the books only where cast or adjustWallet wrote back  *)
(* a balance that another commit had changed since it was read.              *)
THEOREM LossesNeedOverlap == Spec => []LossNeedsOverlap
<1>1. IndInv => LossNeedsOverlap
  BY DEF IndInv
<1> QED
  BY <1>1, Invariance, PTL

(* Purchases, verifications, webhooks, adjustments and votes, statement by   *)
(* statement and with every failure between, implement the atomic CoinBank:  *)
(* who bought is who is credited, once and in full, and coins move only with *)
(* a booking and, for votes, with the votes they pay for.                    *)
THEOREM BankRefinement == Spec => ImplementsBank
<1>1. Init => IndInv /\ LinksOK
  BY InitInv, InitLinks
<1>2. IndInv /\ LinksOK /\ [Next]_vars => (IndInv /\ LinksOK)'
  BY StepInv, StepLinks
<1>3. Spec => [](IndInv /\ LinksOK)
  BY <1>1, <1>2, PTL DEF Spec
<1> QED
  BY <1>3, InitImplements, StepImplements, PTL DEF Spec, ImplementsBank, Bank!Spec

(* Any number of webhooks, verifications, votes, adjustments and wallet      *)
(* creations never wait for each other in a circle, so that PostgreSQL never *)
(* has to end one of them to break a deadlock.                               *)
THEOREM NeverDeadlocked == Spec => []NoDeadlock
<1>1. Spec => [](IndInv /\ LocksHeld)
  BY InitHolds, StepHolds, Invariance, PTL DEF Spec
<1> QED
  BY <1>1, WaitsEnd, PTL

(***************************************************************************)
(* What the bank promises, whoever implements it.                          *)
(***************************************************************************)
BooksOK ==
    /\ buyer \in [Payments -> Users \cup {None}]
    /\ balance \in [Users -> Nat] /\ booked \in [Users -> Int]
    /\ \A p \in Payments : paystack[p] = "paid" => buyer[p] \in Users
    /\ LossNeedsOverlap

LEMMA BankInitBooks == Bank!Init => BooksOK
BY CoinAssumption DEF Bank!Init, BooksOK, LossNeedsOverlap

(* A movement shown exactly keeps what the balance differs by; one computed  *)
(* from an old balance notes its user.                                       *)
LEMMA BookedBooks ==
    ASSUME BooksOK, NEW u \in Users, NEW n \in Int, Bank!Book(u, n),
           Bank!Exactly(u, n) \/ Bank!FromOld(u, n)
    PROVE  /\ balance' \in [Users -> Nat] /\ booked' \in [Users -> Int]
           /\ LossNeedsOverlap'
<1>1. CASE Bank!Exactly(u, n)
  BY <1>1 DEF BooksOK, LossNeedsOverlap, Bank!Book, Bank!Exactly
<1>2. CASE Bank!FromOld(u, n)
  <2>1. balance' \in [Users -> Nat]
    BY <1>2 DEF Bank!FromOld
  <2>2. booked' \in [Users -> Int]
    BY DEF BooksOK, Bank!Book
  <2>3. \A w \in Users \ {u} : balance'[w] = balance[w] /\ booked'[w] = booked[w]
    BY <1>2 DEF BooksOK, Bank!Book, Bank!FromOld
  <2> QED
    BY <1>2, <2>1, <2>2, <2>3 DEF BooksOK, LossNeedsOverlap, Bank!FromOld
<1> QED
  BY <1>1, <1>2

LEMMA BankStepBooks == BooksOK /\ [Bank!Next]_(Bank!vars) => BooksOK'
<1> SUFFICES ASSUME BooksOK, [Bank!Next]_(Bank!vars) PROVE BooksOK'
  OBVIOUS
<1> DEFINE funded == {p \in Payments : paystack[p] = "paid"}
<1>0. \A p \in Payments : paystack'[p] = "paid" <=> p \in funded'
  OBVIOUS
<1>1. ASSUME NEW p \in Payments, NEW u \in Users, Bank!Purchase(p, u) PROVE BooksOK'
  BY <1>0, <1>1 DEF Bank!Purchase, BooksOK, LossNeedsOverlap
<1>2. ASSUME NEW p \in Payments, Bank!Pay(p) PROVE BooksOK'
  BY <1>0, <1>2 DEF Bank!Pay, BooksOK, LossNeedsOverlap
<1>3. ASSUME NEW p \in Payments, Bank!Credit(p) PROVE BooksOK'
  <2>1. buyer[p] \in Users /\ Coins[p] \in Int
    BY <1>3, CoinAssumption DEF Bank!Credit, BooksOK
  <2>2. PICK u \in Users : u = buyer[p]
    BY <2>1
  <2>3. Bank!Book(u, Coins[p]) /\ Bank!Exactly(u, Coins[p])
    BY <1>3, <2>2 DEF Bank!Credit, Bank!Book, Bank!Exactly
  <2> QED
    BY <1>0, <1>3, <2>1, <2>3, BookedBooks DEF Bank!Credit, BooksOK
<1>4. ASSUME NEW u \in Users, Bank!OpenWallet(u) PROVE BooksOK'
  BY <1>0, <1>4 DEF Bank!OpenWallet, BooksOK, LossNeedsOverlap
<1>5. ASSUME NEW u \in Users, NEW n \in Adjustments, Bank!Adjust(u, n) PROVE BooksOK'
  BY <1>0, <1>5, BookedBooks, CoinAssumption DEF Bank!Adjust, BooksOK
<1>6. ASSUME NEW u \in Users, NEW c \in Contestants, NEW coins \in Offers,
             Bank!Spend(u, c, coins)
      PROVE  BooksOK'
  BY <1>0, <1>6, BookedBooks, CoinAssumption DEF Bank!Spend, BooksOK
<1>7. CASE UNCHANGED Bank!vars
  BY <1>0, <1>7 DEF Bank!vars, BooksOK, LossNeedsOverlap
<1> QED
  BY <1>1, <1>2, <1>3, <1>4, <1>5, <1>6, <1>7 DEF Bank!Next

(* Whatever implements the bank lets a balance depart from its transactions  *)
(* only by the write of an old one: the refinement says no less than that.   *)
THEOREM BankKeepsBooks == ImplementsBank => []LossNeedsOverlap
<1>1. BooksOK => LossNeedsOverlap
  BY DEF BooksOK
<1> QED
  BY <1>1, BankInitBooks, BankStepBooks, PTL DEF ImplementsBank, Bank!Spec
===============================================================================
