-------------------------- MODULE ManualVotesProofs --------------------------
(***************************************************************************)
(* Proofs about ManualVotes for any number of payments, contestants,       *)
(* requests and proofs.                                                    *)
(***************************************************************************)
EXTENDS ManualVotes, TLAPS

(***************************************************************************)
(* The inductive invariant, part by part.                                  *)
(***************************************************************************)
OnPayment == {"attach"} \cup Serializable

(* What a request works on, and that the rows it has matched exist.          *)
RequestsOK ==
    \A r \in Reqs :
        /\ pc[r] = "create" => arg[r] \in Contestants
        /\ pc[r] \in OnPayment => arg[r] \in Payments /\ Exists(arg[r])
        /\ pc[r] = "votes_payments" => todo[r] \subseteq {p \in Payments : Exists(p)}
        /\ pc[r] # "votes_payments" => todo[r] \subseteq Contestants

(* A claimed payment is locked by its claimant, and so is the contestant     *)
(* confirm has counted for; only rows of payments that exist are locked.     *)
LocksOK ==
    /\ \A r \in Reqs :
        /\ pc[r] \in Claimed => lock[arg[r]] = r
        /\ pc[r] = "confirm_counted" => lock[owner[arg[r]]] = r
    /\ \A p \in Payments : lock[p] # None => Exists(p)

(* A snapshot nobody has outdated, and a claimed row, are what was read.     *)
AsRead(r) ==
    IF pc[r] \in {"submit", "submit_claimed"}
    THEN status[arg[r]] = "INTENT_CREATED" /\ proof[arg[r]] # None
    ELSE status[arg[r]] = "SUBMITTED"
SnapshotsOK ==
    \A r \in Reqs :
        /\ pc[r] # "conflict"
        /\ pc[r] \in Claiming /\ arg[r] \notin stale[r] => AsRead(r)
        /\ pc[r] \in Claimed => AsRead(r)

(* What its status says of a payment's owner, log and credit.                *)
Undecided == {"ABSENT", "INTENT_CREATED", "SUBMITTED"}
PaymentOK(p) ==
    /\ Exists(p) => owner[p] \in Contestants
    /\ events[p]["CONFIRMED"] = IF p \in credits THEN 1 ELSE 0
    /\ events[p]["REJECTED"] <= 1
    /\ p \in credits => events[p]["REJECTED"] = 0 /\ status[p] \notin Undecided
    /\ status[p] \in Undecided => events[p]["REJECTED"] = 0
    /\ status[p] = "CONFIRMED" => p \in credits
    /\ status[p] \in {"ABSENT", "INTENT_CREATED"} => events[p]["TRANSFER_SUBMITTED"] = 0
    /\ status[p] \in {"SUBMITTED", "CONFIRMED"} =>
           proof[p] # None /\ events[p]["TRANSFER_SUBMITTED"] = 1
PaymentsOK == \A p \in Payments : PaymentOK(p)

(* resetVotes goes on holding every founder; a confirmed payment of a        *)
(* contestant it holds is archived by it.                                    *)
ResetsOK ==
    /\ \A c \in Founders : cstatus[c] # "ABSENT"
    /\ \A r \in Reqs :
        /\ pc[r] = "votes_contestants" => \A c \in Founders : c \in todo[r] \/ lock[c] = r
        /\ pc[r] = "votes_payments" =>
               /\ \A c \in Founders : lock[c] = r
               /\ \A p \in Payments :
                     status[p] = "CONFIRMED" /\ lock[owner[p]] = r
                         => p \in todo[r] \/ lock[p] = r

IndInv ==
    /\ TypeOK
    /\ RequestsOK
    /\ LocksOK
    /\ SnapshotsOK
    /\ PaymentsOK
    /\ ResetsOK
    /\ CountedOnce
    /\ BackedVotes
    /\ LossesAudited

(* A transaction that is rolled back leaves the tables as they were.         *)
LEMMA RollbackInv ==
    ASSUME IndInv, NEW r \in Reqs, NEW answer \in {"idle", "failed"}, Rollback(r, answer)
    PROVE  IndInv'
<1> USE DEF IndInv, Rollback, Release, Outdate, table
<1>1. TypeOK'
  BY DEF TypeOK, Location, Answered, Rows
<1>2. RequestsOK'
  BY DEF TypeOK, RequestsOK, OnPayment, Serializable, Claiming, Claimed, Exists
<1>3. LocksOK'
  BY IdentityAssumption DEF TypeOK, LocksOK, RequestsOK, PaymentsOK, PaymentOK, Rows,
     OnPayment, Serializable, Claiming, Claimed, Exists
<1>4. SnapshotsOK'
  BY DEF TypeOK, SnapshotsOK, AsRead, Serializable, Claiming, Claimed
<1>5. PaymentsOK'
  BY DEF PaymentsOK, PaymentOK, Exists
<1>6. ResetsOK'
  BY IdentityAssumption DEF TypeOK, ResetsOK, PaymentsOK, PaymentOK, Exists, Rows
<1>7. CountedOnce' /\ BackedVotes' /\ LossesAudited'
  BY DEF CountedOnce, BackedVotes, LossesAudited
<1> QED
  BY <1>1, <1>2, <1>3, <1>4, <1>5, <1>6, <1>7

LEMMA ConfirmCommitInv ==
    ASSUME IndInv, NEW r \in Reqs, ConfirmCommit(r)
    PROVE  IndInv'
<1> DEFINE p == arg[r]
<1> USE DEF IndInv, ConfirmCommit, Commit, Release, Outdate, Record
<1>0. p \in Payments /\ Exists(p) /\ owner[p] \in Contestants
      /\ lock[p] = r /\ lock[owner[p]] = r /\ status[p] = "SUBMITTED"
  BY DEF RequestsOK, OnPayment, Serializable, Claimed, LocksOK, SnapshotsOK, AsRead,
     PaymentsOK, PaymentOK
<1>1. TypeOK'
  BY <1>0 DEF TypeOK, Location, Answered, Rows, EventType, PaymentStatus, AuditRow
<1>2. RequestsOK'
  BY <1>0 DEF TypeOK, RequestsOK, OnPayment, Serializable, Claiming, Claimed, Exists
<1>3. LocksOK'
  BY <1>0, IdentityAssumption DEF TypeOK, LocksOK, RequestsOK, PaymentsOK, PaymentOK, Rows,
     OnPayment, Serializable, Claiming, Claimed, Exists
<1>4. SnapshotsOK'
  BY <1>0 DEF TypeOK, SnapshotsOK, AsRead, Serializable, Claiming, Claimed, LocksOK, RequestsOK, OnPayment
<1>5. PaymentsOK'
  BY <1>0 DEF TypeOK, PaymentsOK, PaymentOK, Exists, EventType, Undecided
<1>6. ResetsOK'
  BY <1>0, IdentityAssumption DEF TypeOK, ResetsOK, PaymentsOK, PaymentOK, Exists, Rows
<1>7. CountedOnce'
  BY <1>0 DEF TypeOK, CountedOnce, PaymentsOK, PaymentOK, Undecided
<1>8. BackedVotes'
  BY <1>0 DEF TypeOK, BackedVotes
<1>9. LossesAudited'
  <2>1. \A q \in Payments : events'[q]["REJECTED"] = events[q]["REJECTED"]
    BY <1>0 DEF TypeOK, EventType
  <2>2. tally'[p] # 0 /\ status'[p] = "CONFIRMED" /\ audit \subseteq audit'
    BY <1>0 DEF TypeOK
  <2>3. \A q \in Payments \ {p} :
           status'[q] = status[q] /\ tally'[q] = tally[q] /\ owner'[q] = owner[q]
    BY <1>0 DEF TypeOK
  <2> QED
    BY <2>1, <2>2, <2>3 DEF LossesAudited
<1> QED
  BY <1>1, <1>2, <1>3, <1>4, <1>5, <1>6, <1>7, <1>8, <1>9

(* A request that starts has read committed tables and holds no lock yet.    *)
LEMMA BeginInv ==
    ASSUME IndInv, NEW r \in Reqs, NEW op, NEW x, NEW rows, Begin(r, op, x, rows),
           \/ op = "create" /\ x \in Contestants /\ rows = {}
           \/ op = "attach" /\ x \in Payments /\ Exists(x) /\ rows = {}
           \/ /\ op = "submit" /\ x \in Payments /\ rows = {}
              /\ status[x] = "INTENT_CREATED" /\ proof[x] # None
           \/ /\ op \in {"confirm", "reject"} /\ x \in Payments /\ rows = {}
              /\ status[x] = "SUBMITTED"
           \/ op \in {"votes_contestants", "reset"} /\ x = None /\ rows = Registered
    PROVE  IndInv'
<1> USE DEF IndInv, Begin, table
<1>1. TypeOK'
  BY DEF TypeOK, Location, Answered, Rows, Serializable, Claiming, Locking, Registered
<1>2. RequestsOK'
  BY DEF TypeOK, RequestsOK, OnPayment, Serializable, Claiming, Claimed, Exists, Registered,
     Rows, Answered
<1>3. LocksOK'
  BY DEF TypeOK, LocksOK, Claimed, Exists
<1>4. SnapshotsOK'
  BY DEF TypeOK, SnapshotsOK, AsRead, Claiming, Claimed, Answered
<1>5. PaymentsOK'
  BY DEF PaymentsOK, PaymentOK, Exists
<1>6. ResetsOK'
  BY IdentityAssumption DEF TypeOK, ResetsOK, Registered
<1>7. CountedOnce' /\ BackedVotes' /\ LossesAudited'
  BY DEF CountedOnce, BackedVotes, LossesAudited
<1> QED
  BY <1>1, <1>2, <1>3, <1>4, <1>5, <1>6, <1>7

LEMMA InsertIntentInv ==
    ASSUME IndInv, NEW r \in Reqs, NEW p \in Payments, InsertIntent(r, p)
    PROVE  IndInv'
<1> USE DEF IndInv, InsertIntent, Commit, Release, Outdate, Record
<1>0. arg[r] \in Contestants /\ status[p] = "ABSENT" /\ lock[p] = None /\ p \notin credits
      /\ tally[p] = 0
  BY DEF RequestsOK, Exists, LocksOK, PaymentsOK, PaymentOK, Undecided, CountedOnce, TypeOK
<1>1. TypeOK'
  BY <1>0 DEF TypeOK, Location, Answered, Rows, EventType, PaymentStatus
<1>2. RequestsOK'
  BY <1>0 DEF TypeOK, RequestsOK, OnPayment, Serializable, Claiming, Claimed, Exists
<1>3. LocksOK'
  BY <1>0, IdentityAssumption DEF TypeOK, LocksOK, RequestsOK, PaymentsOK, PaymentOK, Rows,
     OnPayment, Serializable, Claiming, Claimed, Exists
<1>4. SnapshotsOK'
  BY <1>0 DEF TypeOK, SnapshotsOK, AsRead, Serializable, Claiming, Claimed, RequestsOK,
     OnPayment, Exists
<1>5. PaymentsOK'
  BY <1>0 DEF TypeOK, PaymentsOK, PaymentOK, Exists, EventType, Undecided
<1>6. ResetsOK'
  BY <1>0, IdentityAssumption DEF TypeOK, ResetsOK, PaymentsOK, PaymentOK, Exists, Rows
<1>7. CountedOnce'
  BY DEF CountedOnce
<1>8. BackedVotes'
  BY <1>0 DEF TypeOK, BackedVotes
<1>9. LossesAudited'
  <2>1. \A q \in Payments : events'[q]["REJECTED"] = events[q]["REJECTED"]
    BY DEF TypeOK, EventType
  <2>2. status'[p] \notin {"CONFIRMED", "REJECTED"}
    BY DEF TypeOK
  <2>3. \A q \in Payments \ {p} : status'[q] = status[q] /\ owner'[q] = owner[q]
    BY DEF TypeOK
  <2>4. UNCHANGED <<tally, audit>>
    OBVIOUS
  <2> HIDE DEF InsertIntent
  <2> QED
    BY <2>1, <2>2, <2>3, <2>4 DEF LossesAudited
<1> QED
  BY <1>1, <1>2, <1>3, <1>4, <1>5, <1>6, <1>7, <1>8, <1>9

LEMMA StoreProofInv ==
    ASSUME IndInv, NEW r \in Reqs, NEW x \in Proofs, StoreProof(r, x)
    PROVE  IndInv'
<1> DEFINE p == arg[r]
<1> USE DEF IndInv, StoreProof, Commit, Release, Outdate, Record
<1>0. p \in Payments /\ x # None
  BY IdentityAssumption DEF RequestsOK, OnPayment
<1>1. TypeOK'
  BY <1>0 DEF TypeOK, Location, Answered, Rows, EventType
<1>2. RequestsOK'
  BY DEF TypeOK, RequestsOK, OnPayment, Serializable, Claiming, Claimed, Exists
<1>3. LocksOK'
  BY IdentityAssumption DEF TypeOK, LocksOK, RequestsOK, PaymentsOK, PaymentOK, Rows,
     OnPayment, Serializable, Claiming, Claimed, Exists
<1>4. SnapshotsOK'
  BY <1>0 DEF TypeOK, SnapshotsOK, AsRead, Serializable, Claiming, Claimed
<1>5. PaymentsOK'
  BY <1>0 DEF TypeOK, PaymentsOK, PaymentOK, Exists, EventType, Undecided
<1>6. ResetsOK'
  BY IdentityAssumption DEF TypeOK, ResetsOK, PaymentsOK, PaymentOK, Exists, Rows
<1>7. CountedOnce' /\ BackedVotes'
  BY DEF CountedOnce, BackedVotes
<1>8. LossesAudited'
  <2>1. \A q \in Payments : events'[q]["REJECTED"] = events[q]["REJECTED"]
    BY <1>0 DEF TypeOK, EventType
  <2> QED
    BY <2>1 DEF LossesAudited
<1> QED
  BY <1>1, <1>2, <1>3, <1>4, <1>5, <1>6, <1>7, <1>8

(* Submit, confirm and reject take the row lock of a payment that still is   *)
(* what they read: the claim never finds another status.                     *)
LEMMA ClaimInv ==
    ASSUME IndInv, NEW r \in Reqs, Claim(r)
    PROVE  IndInv'
<1> DEFINE p == arg[r]
<1>0. p \in Payments /\ Exists(p) /\ lock[p] = None /\ pc[r] \in Claiming
  BY DEF IndInv, Claim, RequestsOK, OnPayment, Serializable
<1>a. CASE p \in stale[r]
  BY <1>a, RollbackInv DEF Claim
<1>b. CASE p \notin stale[r]
  <2> USE DEF IndInv, table
  <2>0. /\ lock' = [lock EXCEPT ![p] = r]
        /\ pc' = [pc EXCEPT ![r] = ClaimedBy(pc[r])]
        /\ UNCHANGED <<table, arg, todo, stale>>
        /\ AsRead(r)
    BY <1>0, <1>b DEF Claim, SnapshotsOK, AsRead, ClaimsFrom, Claiming
  <2>1. ClaimedBy(pc[r]) \in Claimed \ {"confirm_counted"}
        /\ (ClaimedBy(pc[r]) = "submit_claimed" <=> pc[r] = "submit")
    BY <1>0 DEF Claiming, Claimed, ClaimedBy
  <2>2. TypeOK'
    BY <1>0, <2>0, <2>1 DEF TypeOK, Location, Serializable, Rows
  <2>3. RequestsOK'
    BY <1>0, <2>0, <2>1 DEF TypeOK, RequestsOK, OnPayment, Serializable, Claiming, Claimed, Exists
  <2>4. LocksOK'
    BY <1>0, <2>0, <2>1, IdentityAssumption DEF TypeOK, LocksOK, RequestsOK, PaymentsOK,
       PaymentOK, Rows, OnPayment, Serializable, Claimed, Exists
  <2>5. SnapshotsOK'
    BY <1>0, <2>0, <2>1 DEF TypeOK, SnapshotsOK, AsRead, Claimed, Claiming
  <2>6. PaymentsOK'
    BY <2>0 DEF PaymentsOK, PaymentOK, Exists
  <2>7. ResetsOK'
    BY <1>0, <2>0, <2>1, IdentityAssumption DEF TypeOK, ResetsOK, Rows, Claimed, PaymentsOK, PaymentOK, Exists
  <2>8. CountedOnce' /\ BackedVotes' /\ LossesAudited'
    BY <2>0 DEF CountedOnce, BackedVotes, LossesAudited
  <2> QED
    BY <2>2, <2>3, <2>4, <2>5, <2>6, <2>7, <2>8
<1> QED
  BY <1>a, <1>b

LEMMA SubmitCommitInv ==
    ASSUME IndInv, NEW r \in Reqs, SubmitCommit(r)
    PROVE  IndInv'
<1> DEFINE p == arg[r]
<1> USE DEF IndInv, SubmitCommit, Commit, Release, Outdate, Record
<1>0. p \in Payments /\ Exists(p) /\ lock[p] = r /\ p \notin credits
      /\ status[p] = "INTENT_CREATED" /\ proof[p] # None /\ tally[p] = 0
  BY DEF RequestsOK, OnPayment, Serializable, Claimed, LocksOK, SnapshotsOK, AsRead,
     PaymentsOK, PaymentOK, Undecided, CountedOnce, TypeOK
<1>1. TypeOK'
  BY <1>0 DEF TypeOK, Location, Answered, Rows, EventType, PaymentStatus
<1>2. RequestsOK'
  BY <1>0 DEF TypeOK, RequestsOK, OnPayment, Serializable, Claiming, Claimed, Exists
<1>3. LocksOK'
  BY <1>0, IdentityAssumption DEF TypeOK, LocksOK, RequestsOK, PaymentsOK, PaymentOK, Rows,
     OnPayment, Serializable, Claiming, Claimed, Exists
<1>4. SnapshotsOK'
  BY <1>0 DEF TypeOK, SnapshotsOK, AsRead, Serializable, Claiming, Claimed, LocksOK,
     RequestsOK, OnPayment
<1>5. PaymentsOK'
  BY <1>0 DEF TypeOK, PaymentsOK, PaymentOK, Exists, EventType, Undecided
<1>6. ResetsOK'
  BY <1>0, IdentityAssumption DEF TypeOK, ResetsOK, PaymentsOK, PaymentOK, Exists, Rows
<1>7. CountedOnce'
  BY DEF CountedOnce
<1>8. BackedVotes'
  BY <1>0 DEF TypeOK, BackedVotes
<1>9. LossesAudited'
  <2>1. \A q \in Payments : events'[q]["REJECTED"] = events[q]["REJECTED"]
    BY <1>0 DEF TypeOK, EventType
  <2>2. status'[p] \notin {"CONFIRMED", "REJECTED"}
    BY <1>0 DEF TypeOK
  <2>3. \A q \in Payments \ {p} : status'[q] = status[q]
    BY DEF TypeOK
  <2>4. UNCHANGED <<tally, audit, owner>>
    OBVIOUS
  <2> HIDE DEF SubmitCommit
  <2> QED
    BY <2>1, <2>2, <2>3, <2>4 DEF LossesAudited
<1> QED
  BY <1>1, <1>2, <1>3, <1>4, <1>5, <1>6, <1>7, <1>8, <1>9

LEMMA RejectCommitInv ==
    ASSUME IndInv, NEW r \in Reqs, RejectCommit(r)
    PROVE  IndInv'
<1> DEFINE p == arg[r]
<1> USE DEF IndInv, RejectCommit, Commit, Release, Outdate, Record
<1>0. p \in Payments /\ Exists(p) /\ lock[p] = r /\ p \notin credits
      /\ status[p] = "SUBMITTED" /\ tally[p] = 0 /\ events[p]["REJECTED"] = 0
  <2>1. p \in Payments /\ Exists(p) /\ lock[p] = r /\ status[p] = "SUBMITTED"
    BY DEF RequestsOK, OnPayment, Serializable, Claimed, LocksOK, SnapshotsOK, AsRead
  <2>2. p \notin credits /\ events[p]["REJECTED"] = 0
    BY <2>1 DEF PaymentsOK, PaymentOK, Undecided
  <2>3. tally[p] = 0
    BY <2>1, <2>2 DEF CountedOnce, TypeOK
  <2> QED
    BY <2>1, <2>2, <2>3
<1>1. TypeOK'
  BY <1>0 DEF TypeOK, Location, Answered, Rows, EventType, PaymentStatus, AuditRow
<1>2. RequestsOK'
  BY <1>0 DEF TypeOK, RequestsOK, OnPayment, Serializable, Claiming, Claimed, Exists
<1>3. LocksOK'
  BY <1>0, IdentityAssumption DEF TypeOK, LocksOK, RequestsOK, PaymentsOK, PaymentOK, Rows,
     OnPayment, Serializable, Claiming, Claimed, Exists
<1>4. SnapshotsOK'
  BY <1>0 DEF TypeOK, SnapshotsOK, AsRead, Serializable, Claiming, Claimed, LocksOK,
     RequestsOK, OnPayment
<1>5. PaymentsOK'
  BY <1>0 DEF TypeOK, PaymentsOK, PaymentOK, Exists, EventType, Undecided
<1>6. ResetsOK'
  BY <1>0, IdentityAssumption DEF TypeOK, ResetsOK, PaymentsOK, PaymentOK, Exists, Rows
<1>7. CountedOnce'
  BY DEF CountedOnce
<1>8. BackedVotes'
  BY <1>0 DEF TypeOK, BackedVotes
<1>9. LossesAudited'
  <2>1. \A q \in Payments \ {p} : events'[q]["REJECTED"] = events[q]["REJECTED"]
    BY <1>0 DEF TypeOK, EventType
  <2>2. status'[p] # "CONFIRMED" /\ events'[p]["REJECTED"] = 1
    BY <1>0 DEF TypeOK, EventType
  <2>3. \A q \in Payments \ {p} : status'[q] = status[q]
    BY DEF TypeOK
  <2>4. audit \subseteq audit' /\ UNCHANGED <<tally, owner>>
    OBVIOUS
  <2> HIDE DEF RejectCommit
  <2> QED
    BY <2>1, <2>2, <2>3, <2>4 DEF LossesAudited
<1> QED
  BY <1>1, <1>2, <1>3, <1>4, <1>5, <1>6, <1>7, <1>8, <1>9

LEMMA IncrementInv ==
    ASSUME IndInv, NEW r \in Reqs, Increment(r)
    PROVE  IndInv'
<1> DEFINE p == arg[r]
           c == owner[p]
<1>0. p \in Payments /\ Exists(p) /\ c \in Contestants /\ lock[c] = None
      /\ pc[r] = "confirm_claimed"
  BY DEF IndInv, Increment, RequestsOK, OnPayment, Serializable, Claimed, PaymentsOK, PaymentOK
<1>a. CASE c \in stale[r] \/ p \in credits
  BY <1>a, RollbackInv DEF Increment
<1>b. CASE ~(c \in stale[r] \/ p \in credits)
  <2> USE DEF IndInv, table
  <2>0. /\ lock' = [lock EXCEPT ![c] = r]
        /\ pc' = [pc EXCEPT ![r] = "confirm_counted"]
        /\ UNCHANGED <<table, arg, todo, stale>>
    BY <1>0, <1>b DEF Increment
  <2>2. TypeOK'
    BY <1>0, <2>0 DEF TypeOK, Location, Serializable, Claimed, Rows
  <2>3. RequestsOK'
    BY <1>0, <2>0 DEF TypeOK, RequestsOK, OnPayment, Serializable, Claiming, Claimed, Exists
  <2>4. LocksOK'
    BY <1>0, <2>0, IdentityAssumption DEF TypeOK, LocksOK, RequestsOK, PaymentsOK,
       PaymentOK, Rows, OnPayment, Serializable, Claimed, Exists
  <2>5. SnapshotsOK'
    BY <1>0, <2>0 DEF TypeOK, SnapshotsOK, AsRead, Claimed, Claiming
  <2>6. PaymentsOK'
    BY <2>0 DEF PaymentsOK, PaymentOK, Exists
  <2>7. ResetsOK'
    BY <1>0, <2>0, IdentityAssumption DEF TypeOK, ResetsOK, Rows, PaymentsOK, PaymentOK, Exists
  <2>8. CountedOnce' /\ BackedVotes' /\ LossesAudited'
    BY <2>0 DEF CountedOnce, BackedVotes, LossesAudited
  <2> QED
    BY <2>2, <2>3, <2>4, <2>5, <2>6, <2>7, <2>8
<1> QED
  BY <1>a, <1>b

LEMMA LockRowInv ==
    ASSUME IndInv, NEW r \in Reqs, NEW x \in Rows, LockRow(r, x)
    PROVE  IndInv'
<1> USE DEF IndInv, LockRow, table
<1>1. TypeOK'
  BY DEF TypeOK
<1>2. RequestsOK'
  BY DEF TypeOK, RequestsOK, OnPayment, Serializable, Claiming, Claimed, Exists
<1>3. LocksOK'
  BY IdentityAssumption DEF TypeOK, LocksOK, RequestsOK, PaymentsOK, PaymentOK, Rows,
     OnPayment, Serializable, Claiming, Claimed, Exists
<1>4. SnapshotsOK'
  BY DEF SnapshotsOK, AsRead
<1>5. PaymentsOK'
  BY DEF PaymentsOK, PaymentOK, Exists
<1>6. ResetsOK'
  BY IdentityAssumption DEF TypeOK, ResetsOK, PaymentsOK, PaymentOK, Exists, Rows, RequestsOK, Locking
<1>7. CountedOnce' /\ BackedVotes' /\ LossesAudited'
  BY DEF CountedOnce, BackedVotes, LossesAudited
<1> QED
  BY <1>1, <1>2, <1>3, <1>4, <1>5, <1>6, <1>7

LEMMA ResetVotesPaymentsInv ==
    ASSUME IndInv, NEW r \in Reqs, ResetVotesPayments(r)
    PROVE  IndInv'
<1> USE DEF IndInv, ResetVotesPayments, table
<1>1. TypeOK'
  BY DEF TypeOK, Location, Locking, Rows
<1>2. RequestsOK'
  BY DEF TypeOK, RequestsOK, OnPayment, Serializable, Claiming, Claimed, Exists
<1>3. LocksOK'
  BY DEF TypeOK, LocksOK, Claimed, Exists
<1>4. SnapshotsOK'
  BY DEF TypeOK, SnapshotsOK, AsRead, Claiming, Claimed
<1>5. PaymentsOK'
  BY DEF PaymentsOK, PaymentOK, Exists
<1>6. ResetsOK'
  BY DEF TypeOK, ResetsOK, Exists
<1>7. CountedOnce' /\ BackedVotes' /\ LossesAudited'
  BY DEF CountedOnce, BackedVotes, LossesAudited
<1> QED
  BY <1>1, <1>2, <1>3, <1>4, <1>5, <1>6, <1>7

LEMMA ResetVotesCommitInv ==
    ASSUME IndInv, NEW r \in Reqs, ResetVotesCommit(r)
    PROVE  IndInv'
<1> USE DEF IndInv, ResetVotesCommit, Commit, Release, Outdate
<1>0. /\ \A c \in Founders : lock[c] = r
      /\ \A p \in Payments : lock[p] = r => Exists(p)
      /\ \A p \in Payments : status[p] = "CONFIRMED" /\ lock[owner[p]] = r => lock[p] = r
  BY IdentityAssumption DEF ResetsOK, LocksOK
<1>1. TypeOK'
  <2>1. <<"COMPETITION_VOTES_RESET", None>> \in AuditRow
    BY DEF AuditRow
  <2> QED
    BY <2>1 DEF TypeOK, Location, Answered, Held, PaymentStatus, Zeroed
<1>2. RequestsOK'
  BY DEF TypeOK, RequestsOK, OnPayment, Serializable, Claiming, Claimed, Exists
<1>3. LocksOK'
  BY <1>0, IdentityAssumption DEF TypeOK, LocksOK, RequestsOK, PaymentsOK, PaymentOK, Rows,
     OnPayment, Serializable, Claiming, Claimed, Exists
<1>4. SnapshotsOK'
  BY <1>0 DEF TypeOK, SnapshotsOK, AsRead, Serializable, Claiming, Claimed, LocksOK,
     RequestsOK, OnPayment, Held, Rows
<1>5. PaymentsOK'
  BY <1>0 DEF TypeOK, PaymentsOK, PaymentOK, Exists, Undecided
<1>6. ResetsOK'
  BY <1>0, IdentityAssumption DEF TypeOK, ResetsOK, PaymentsOK, PaymentOK, Exists, Rows
<1>7. CountedOnce'
  BY DEF CountedOnce, Zeroed
<1>8. BackedVotes'
  BY <1>0, IdentityAssumption DEF TypeOK, BackedVotes, Zeroed, Held, Rows
<1>9. LossesAudited'
  <2> SUFFICES ASSUME NEW p \in Payments
               PROVE  /\ status'[p] = "CONFIRMED" /\ tally'[p] = 0 =>
                             \/ <<"COMPETITION_RESET", None>> \in audit'
                             \/ <<"CONTESTANT_REMOVE", owner'[p]>> \in audit'
                      /\ status'[p] = "REJECTED" /\ events'[p]["REJECTED"] = 0 =>
                             <<"COMPETITION_VOTES_RESET", None>> \in audit'
    BY DEF LossesAudited
  <2>1. CASE lock[p] = r
    BY <2>1
  <2>2. CASE lock[p] # r
    <3>1. status[p] = "CONFIRMED" => tally'[p] = tally[p]
      BY <1>0, <2>2 DEF Zeroed, Held
    <3>2. status'[p] = status[p] /\ UNCHANGED <<events, owner>> /\ audit \subseteq audit'
      BY <2>2
    <3> QED
      BY <3>1, <3>2 DEF LossesAudited
  <2> QED
    BY <2>1, <2>2
<1> QED
  BY <1>1, <1>2, <1>3, <1>4, <1>5, <1>6, <1>7, <1>8, <1>9

LEMMA ResetCommitInv ==
    ASSUME IndInv, NEW r \in Reqs, ResetCommit(r)
    PROVE  IndInv'
<1> USE DEF IndInv, ResetCommit, Commit, Release, Outdate
<1>1. TypeOK'
  <2>1. <<"COMPETITION_RESET", None>> \in AuditRow
    BY DEF AuditRow
  <2> QED
    BY <2>1 DEF TypeOK, Location, Answered, Held, Zeroed
<1>2. RequestsOK'
  BY DEF TypeOK, RequestsOK, OnPayment, Serializable, Claiming, Claimed, Exists
<1>3. LocksOK'
  BY IdentityAssumption DEF TypeOK, LocksOK, RequestsOK, PaymentsOK, PaymentOK, Rows,
     OnPayment, Serializable, Claiming, Claimed, Exists
<1>4. SnapshotsOK'
  BY DEF TypeOK, SnapshotsOK, AsRead, Serializable, Claiming, Claimed
<1>5. PaymentsOK'
  BY DEF PaymentsOK, PaymentOK, Exists
<1>6. ResetsOK'
  BY IdentityAssumption DEF TypeOK, ResetsOK, PaymentsOK, PaymentOK, Exists, Rows
<1>7. CountedOnce' /\ BackedVotes'
  BY DEF TypeOK, CountedOnce, BackedVotes, Zeroed
<1>8. LossesAudited'
  <2>1. <<"COMPETITION_RESET", None>> \in audit' /\ audit \subseteq audit'
        /\ UNCHANGED <<status, events>>
    OBVIOUS
  <2> HIDE DEF ResetCommit
  <2> QED
    BY <2>1 DEF LossesAudited
<1> QED
  BY <1>1, <1>2, <1>3, <1>4, <1>5, <1>6, <1>7, <1>8

(* The moderation of contestants changes no request, lock or payment status. *)
LEMMA ModerateInv ==
    ASSUME IndInv, Moderate
    PROVE  IndInv'
<1> DEFINE Quiet ==
             /\ UNCHANGED <<status, owner, proof, credits, events, pc, arg, todo, lock>>
             /\ audit \subseteq audit' /\ audit' \subseteq AuditRow
             /\ stale' \in [Reqs -> SUBSET Rows]
             /\ \A r \in Reqs : pc[r] \in Serializable => stale[r] \subseteq stale'[r]
             /\ cstatus' \in [Contestants -> {"ABSENT", "ELIGIBLE", "BLOCKED"}]
             /\ \A c \in Contestants : cstatus[c] # "ABSENT" => cstatus'[c] # "ABSENT"
             /\ votingOpen' \in BOOLEAN
             /\ tally' \in [Payments -> Nat]
             /\ \A p \in Payments : \/ tally'[p] = tally[p]
                                    \/ /\ tally'[p] = 0
                                       /\ <<"CONTESTANT_REMOVE", owner[p]>> \in audit'
<1>0. ASSUME NEW W \in SUBSET Rows, AdminWrite(W)
      PROVE  /\ stale' \in [Reqs -> SUBSET Rows]
             /\ \A r \in Reqs : pc[r] \in Serializable => stale[r] \subseteq stale'[r]
             /\ UNCHANGED <<pc, arg, todo, lock>>
  BY <1>0 DEF IndInv, TypeOK, AdminWrite
<1>a. Quiet
  <2>1. ASSUME NEW c \in Contestants, NEW s \in {"ELIGIBLE", "BLOCKED"}, UpdateStatus(c, s)
        PROVE  Quiet
    BY <2>1, <1>0 DEF UpdateStatus, IndInv, TypeOK, Rows
  <2>2. ASSUME NEW c \in Contestants, RemoveFromPublic(c)
        PROVE  Quiet
    <3>1. <<"CONTESTANT_REMOVE", c>> \in AuditRow
      BY DEF AuditRow
    <3>2. /\ tally' \in [Payments -> Nat]
          /\ \A p \in Payments : \/ tally'[p] = tally[p]
                                 \/ tally'[p] = 0 /\ owner[p] = c
      BY <2>2 DEF RemoveFromPublic, Zeroed, IndInv, TypeOK
    <3> QED
      BY <2>2, <1>0, <3>1, <3>2 DEF RemoveFromPublic, IndInv, TypeOK, Rows
  <2>3. ASSUME NEW c \in Contestants, Register(c)
        PROVE  Quiet
    BY <2>3, <1>0 DEF Register, IndInv, TypeOK
  <2>4. CASE SetVoting
    <3>1. votingOpen' \in BOOLEAN
      BY <2>4 DEF SetVoting
    <3> QED
      BY <2>4, <1>0, <3>1 DEF SetVoting, IndInv, TypeOK
  <2> QED
    BY <2>1, <2>2, <2>3, <2>4 DEF Moderate
<1> USE DEF IndInv
<1>1. TypeOK'
  BY <1>a DEF TypeOK
<1>2. RequestsOK'
  BY <1>a DEF RequestsOK, Exists
<1>3. LocksOK'
  BY <1>a DEF LocksOK, Exists
<1>4. SnapshotsOK'
  BY <1>a DEF SnapshotsOK, AsRead, Serializable
<1>5. PaymentsOK'
  BY <1>a DEF PaymentsOK, PaymentOK, Exists
<1>6. ResetsOK'
  BY <1>a, IdentityAssumption DEF ResetsOK
<1>7. CountedOnce' /\ BackedVotes'
  <2>1. UNCHANGED <<status, owner, credits>>
    BY <1>a
  <2>2. \A p \in Payments : tally'[p] = tally[p] \/ tally'[p] = 0
    BY <1>a
  <2> QED
    BY <2>1, <2>2, SMT DEF CountedOnce, BackedVotes
<1>8. LossesAudited'
  BY <1>a DEF LossesAudited
<1> QED
  BY <1>1, <1>2, <1>3, <1>4, <1>5, <1>6, <1>7, <1>8

(***************************************************************************)
(* The invariant is inductive.                                             *)
(***************************************************************************)
LEMMA InitInv == Init => IndInv
<1> SUFFICES ASSUME Init PROVE IndInv
  OBVIOUS
<1> USE DEF Init
<1>1. TypeOK
  BY IdentityAssumption DEF TypeOK, PaymentStatus, EventType, AuditRow, Location, Answered, Rows
<1>2. RequestsOK /\ LocksOK /\ SnapshotsOK
  BY IdentityAssumption DEF RequestsOK, LocksOK, SnapshotsOK, OnPayment, Serializable,
     Claiming, Claimed, Rows
<1>3. PaymentsOK
  BY DEF PaymentsOK, PaymentOK, Exists, Undecided, EventType
<1>4. ResetsOK
  BY IdentityAssumption DEF ResetsOK
<1>5. CountedOnce /\ BackedVotes /\ LossesAudited
  BY DEF CountedOnce, BackedVotes, LossesAudited
<1> QED
  BY <1>1, <1>2, <1>3, <1>4, <1>5 DEF IndInv

LEMMA StepInv == IndInv /\ [Next]_vars => IndInv'
<1> SUFFICES ASSUME IndInv, [Next]_vars PROVE IndInv'
  OBVIOUS
<1>1. ASSUME NEW r \in Reqs, Start(r) PROVE IndInv'
  <2>1. ASSUME NEW c \in Contestants, CreateIntent(r, c) PROVE IndInv'
    BY <2>1, BeginInv DEF CreateIntent
  <2>2. ASSUME NEW p \in Payments, AttachProof(r, p) PROVE IndInv'
    BY <2>2, BeginInv DEF AttachProof, Exists
  <2>3. ASSUME NEW p \in Payments, Submit(r, p) PROVE IndInv'
    BY <2>3, BeginInv DEF Submit
  <2>4. ASSUME NEW p \in Payments, Confirm(r, p) \/ Reject(r, p) PROVE IndInv'
    BY <2>4, BeginInv DEF Confirm, Reject
  <2>5. CASE ResetVotes(r) \/ Reset(r)
    BY <2>5, BeginInv DEF ResetVotes, Reset
  <2> QED
    BY <1>1, <2>1, <2>2, <2>3, <2>4, <2>5 DEF Start
<1>2. ASSUME NEW r \in Reqs, Proceed(r) PROVE IndInv'
  <2>1. CASE ReferencesCollide(r)
    BY <2>1, RollbackInv DEF ReferencesCollide
  <2> QED
    BY <1>2, <2>1, InsertIntentInv, StoreProofInv, ClaimInv, SubmitCommitInv, IncrementInv,
       ConfirmCommitInv, RejectCommitInv, LockRowInv, ResetVotesPaymentsInv,
       ResetVotesCommitInv, ResetCommitInv DEF Proceed
<1>3. ASSUME NEW r \in Reqs, Abort(r) \/ DeadlockDetected(r) PROVE IndInv'
  BY <1>3, RollbackInv DEF Abort, DeadlockDetected
<1>4. CASE UNCHANGED vars
  <2> USE <1>4 DEF vars, table
  <2>1. TypeOK' /\ RequestsOK' /\ LocksOK'
    BY DEF IndInv, TypeOK, RequestsOK, LocksOK, Exists
  <2>2. SnapshotsOK' /\ PaymentsOK' /\ ResetsOK'
    BY DEF IndInv, SnapshotsOK, AsRead, PaymentsOK, PaymentOK, ResetsOK, Exists
  <2>3. CountedOnce' /\ BackedVotes' /\ LossesAudited'
    BY DEF IndInv, CountedOnce, BackedVotes, LossesAudited
  <2> QED
    BY <2>1, <2>2, <2>3 DEF IndInv
<1> QED
  BY <1>1, <1>2, <1>3, <1>4, ModerateInv DEF Next

THEOREM Invariance == Spec => []IndInv
  BY InitInv, StepInv, PTL DEF Spec

(* Type correctness for every number of payments, contestants and requests.  *)
THEOREM TypeCorrect == Spec => []TypeOK
<1>1. IndInv => TypeOK
  BY DEF IndInv
<1> QED
  BY <1>1, Invariance, PTL

(* confirm counts a payment's votes at most once, and only with a credit     *)
(* row, whatever confirms, rejects, resets and aborts run beside it.         *)
THEOREM VotesCountedOnce == Spec => []CountedOnce
<1>1. IndInv => CountedOnce
  BY DEF IndInv
<1> QED
  BY <1>1, Invariance, PTL

(* A payment is confirmed or rejected, once, and credited exactly if it is   *)
(* confirmed (confirm, reject).                                              *)
THEOREM OneDecision == Spec => []DecidedOnce
<1>1. IndInv => DecidedOnce
  BY DEF IndInv, TypeOK, EventType, PaymentsOK, PaymentOK, DecidedOnce
<1> QED
  BY <1>1, Invariance, PTL

(* resetVotes, between whose statements anything may happen, leaves no       *)
(* votes without a confirmed payment behind.                                 *)
THEOREM VotesBacked == Spec => []BackedVotes
<1>1. IndInv => BackedVotes
  BY DEF IndInv
<1> QED
  BY <1>1, Invariance, PTL

(* Votes of a confirmed payment disappear only by an audited reset or        *)
(* removal, and payments are archived only by an audited resetVotes.         *)
THEOREM LossesAreAudited == Spec => []LossesAudited
<1>1. IndInv => LossesAudited
  BY DEF IndInv
<1> QED
  BY <1>1, Invariance, PTL

(* No payment is under review or confirmed without a proof image (submit).   *)
THEOREM ProofsBeforeReview == Spec => []ProofBeforeReview
<1>1. IndInv => ProofBeforeReview
  BY DEF IndInv, PaymentsOK, PaymentOK, ProofBeforeReview
<1> QED
  BY <1>1, Invariance, PTL

(* The 409 of submit, confirm and reject is unreachable, and the credit row  *)
(* confirm inserts never collides with another.                              *)
THEOREM ClaimsNeverMiss == Spec => []ClaimNeverMisses
<1>1. IndInv => ClaimNeverMisses
  BY DEF IndInv, SnapshotsOK, AsRead, PaymentsOK, PaymentOK, RequestsOK, OnPayment,
     Serializable, Claimed, Undecided, ClaimNeverMisses
<1> QED
  BY <1>1, Invariance, PTL

(***************************************************************************)
(* What a lock in force says of its holder: which statements it has        *)
(* executed, and that it is not waiting for that row again.                *)
(***************************************************************************)
HoldsFor(r, x) ==
    \/ pc[r] \in {"votes_contestants", "reset"} /\ x \in Contestants
    \/ pc[r] = "votes_payments"
    \/ pc[r] \in Claimed /\ x = arg[r]
    \/ pc[r] = "confirm_counted" /\ x = owner[arg[r]]

LocksHeld ==
    /\ \A r \in Reqs : pc[r] \notin Locking => todo[r] = {}
    /\ \A r \in Reqs, x \in Rows : lock[x] = r => HoldsFor(r, x) /\ x \notin todo[r]

(* A request that begins holds nothing.                                      *)
LEMMA BeginHolds ==
    ASSUME IndInv, LocksHeld, NEW r \in Reqs, NEW op, NEW y, NEW rows,
           op \in Locking \/ rows = {}, Begin(r, op, y, rows)
    PROVE  LocksHeld'
BY DEF IndInv, TypeOK, LocksHeld, HoldsFor, Begin, table, Answered, Claimed, Locking

(* A request that ends lets go of every row; nobody else is concerned, and   *)
(* the payments under review keep their contestant.                          *)
LEMMA ReleaseHolds ==
    ASSUME IndInv, LocksHeld, NEW r \in Reqs, NEW answer \in Answered, Release(r, answer),
           \A p \in Payments : Exists(p) => owner'[p] = owner[p]
    PROVE  LocksHeld'
<1>1. \A q \in Reqs \ {r} : pc'[q] = pc[q] /\ arg'[q] = arg[q] /\ todo'[q] = todo[q]
  BY DEF IndInv, TypeOK, Release
<1>2. pc'[r] \notin Locking /\ todo'[r] = {}
  BY DEF IndInv, TypeOK, Release, Answered, Locking
<1>3. \A q \in Reqs, x \in Rows : lock'[x] = q => q # r /\ lock[x] = q
  BY IdentityAssumption DEF IndInv, TypeOK, Release
<1>4. \A q \in Reqs : pc[q] = "confirm_counted" => owner'[arg[q]] = owner[arg[q]]
  BY DEF IndInv, RequestsOK, OnPayment, Serializable, Claimed
<1> QED
  BY <1>1, <1>2, <1>3, <1>4 DEF LocksHeld, HoldsFor

(* Statements that lock one more row, or go on to another table.             *)
LEMMA StatementHolds ==
    ASSUME IndInv, LocksHeld, NEW r \in Reqs,
           Claim(r) \/ Increment(r) \/ (\E x \in Rows : LockRow(r, x)) \/ ResetVotesPayments(r)
    PROVE  LocksHeld'
<1>0. ASSUME NEW answer \in {"failed", "conflict"}, Rollback(r, answer) PROVE LocksHeld'
  BY <1>0, ReleaseHolds DEF Rollback, Answered, table
<1>1. CASE Claim(r)
  <2>1. SUFFICES ASSUME lock' = [lock EXCEPT ![arg[r]] = r],
                        pc' = [pc EXCEPT ![r] = ClaimedBy(pc[r])],
                        UNCHANGED <<table, arg, todo, stale>>
                 PROVE  LocksHeld'
    BY <1>0, <1>1 DEF Claim
  <2>2. pc[r] \in Claiming /\ pc[r] \notin Locking /\ pc'[r] \in Claimed
    BY <1>1, <2>1 DEF Claim, Claiming, Claimed, ClaimedBy, Locking, IndInv, TypeOK
  <2>3. \A q \in Reqs \ {r} : pc'[q] = pc[q] /\ arg'[q] = arg[q] /\ todo'[q] = todo[q]
    BY <2>1 DEF IndInv, TypeOK
  <2>4. arg'[r] = arg[r] /\ todo'[r] = {} /\ pc'[r] \notin Locking
    BY <2>1, <2>2 DEF LocksHeld, Claimed, Locking
  <2>5. \A z \in Rows : lock[z] # r
    BY <2>2 DEF LocksHeld, HoldsFor, Claiming, Claimed
  <2>6. \A q \in Reqs, z \in Rows : lock'[z] = q =>
           IF q = r THEN z = arg[r] ELSE lock[z] = q
    BY <2>1, <2>5 DEF IndInv, TypeOK
  <2> QED
    BY <2>1, <2>2, <2>3, <2>4, <2>6 DEF LocksHeld, HoldsFor, table
<1>2. CASE Increment(r)
  <2> DEFINE c == owner[arg[r]]
  <2>1. SUFFICES ASSUME lock' = [lock EXCEPT ![c] = r],
                        pc' = [pc EXCEPT ![r] = "confirm_counted"],
                        UNCHANGED <<table, arg, todo, stale>>
                 PROVE  LocksHeld'
    BY <1>0, <1>2 DEF Increment
  <2>2. \A q \in Reqs \ {r} : pc'[q] = pc[q]
    BY <2>1 DEF IndInv, TypeOK
  <2>3. pc[r] = "confirm_claimed" /\ pc'[r] = "confirm_counted" /\ todo[r] = {}
    BY <1>2, <2>1 DEF Increment, IndInv, TypeOK, LocksHeld, Locking
  <2>4. \A q \in Reqs, z \in Rows : lock'[z] = q => (q = r /\ z = c) \/ lock[z] = q
    BY <2>1 DEF IndInv, TypeOK
  <2> QED
    BY <2>1, <2>2, <2>3, <2>4 DEF LocksHeld, HoldsFor, table, Claimed, Locking
<1>3. ASSUME NEW x \in Rows, LockRow(r, x) PROVE LocksHeld'
  <2>1. pc[r] \in Locking /\ x \in todo[r] /\ UNCHANGED <<table, pc, arg>>
    BY <1>3 DEF LockRow
  <2>2. todo'[r] = todo[r] \ {x} /\ \A q \in Reqs \ {r} : todo'[q] = todo[q]
    BY <1>3 DEF LockRow, IndInv, TypeOK
  <2>3. \A q \in Reqs, z \in Rows : lock'[z] = q => (q = r /\ z = x) \/ lock[z] = q
    BY <1>3 DEF LockRow, IndInv, TypeOK
  <2>4. HoldsFor(r, x)
    BY <2>1 DEF HoldsFor, Locking, IndInv, RequestsOK
  <2> QED
    BY <2>1, <2>2, <2>3, <2>4 DEF LocksHeld, HoldsFor, table
<1>4. CASE ResetVotesPayments(r)
  <2>1. pc[r] = "votes_contestants" /\ UNCHANGED <<table, arg, lock>>
    BY <1>4 DEF ResetVotesPayments
  <2>2. pc'[r] = "votes_payments" /\ todo'[r] \subseteq Payments
        /\ \A q \in Reqs \ {r} : pc'[q] = pc[q] /\ todo'[q] = todo[q]
    BY <1>4 DEF ResetVotesPayments, IndInv, TypeOK
  <2>3. \A z \in Rows : lock[z] = r => z \in Contestants
    BY <2>1 DEF LocksHeld, HoldsFor, Claimed
  <2> QED
    BY <2>1, <2>2, <2>3, IdentityAssumption DEF LocksHeld, HoldsFor, table, Locking
<1> QED
  BY <1>1, <1>2, <1>3, <1>4

LEMMA StepHolds == IndInv /\ LocksHeld /\ [Next]_vars => LocksHeld'
<1> SUFFICES ASSUME IndInv, LocksHeld, [Next]_vars PROVE LocksHeld'
  OBVIOUS
<1>1. ASSUME NEW r \in Reqs, Start(r) PROVE LocksHeld'
  BY <1>1, BeginHolds DEF Start, CreateIntent, AttachProof, Submit, Confirm, Reject,
     ResetVotes, Reset, Locking
<1>2. ASSUME NEW r \in Reqs, Proceed(r) PROVE LocksHeld'
  <2>1. ASSUME NEW p \in Payments, InsertIntent(r, p) PROVE LocksHeld'
    <3>1. \A q \in Payments : Exists(q) => owner'[q] = owner[q]
      BY <2>1 DEF InsertIntent, IndInv, TypeOK
    <3> QED
      BY <2>1, <3>1, ReleaseHolds DEF InsertIntent, Commit, Answered
  <2>2. ASSUME \/ \E x \in Proofs : StoreProof(r, x)
               \/ SubmitCommit(r) \/ ConfirmCommit(r) \/ RejectCommit(r)
               \/ ResetVotesCommit(r) \/ ResetCommit(r)
        PROVE  LocksHeld'
    BY <2>2, ReleaseHolds DEF StoreProof, SubmitCommit, ConfirmCommit, RejectCommit,
       ResetVotesCommit, ResetCommit, Commit, Answered
  <2>3. CASE ReferencesCollide(r)
    BY <2>3, ReleaseHolds DEF ReferencesCollide, Rollback, Answered, table
  <2> QED
    BY <1>2, <2>1, <2>2, <2>3, StatementHolds DEF Proceed
<1>3. ASSUME NEW r \in Reqs, Abort(r) \/ DeadlockDetected(r) PROVE LocksHeld'
  BY <1>3, ReleaseHolds DEF Abort, DeadlockDetected, Rollback, Answered, table
<1>4. CASE Moderate
  <2>1. UNCHANGED <<owner, pc, arg, todo, lock>>
    BY <1>4 DEF Moderate, UpdateStatus, RemoveFromPublic, Register, SetVoting, AdminWrite
  <2> QED
    BY <2>1 DEF LocksHeld, HoldsFor
<1>5. CASE UNCHANGED vars
  BY <1>5 DEF vars, table, LocksHeld, HoldsFor
<1> QED
  BY <1>1, <1>2, <1>3, <1>4, <1>5 DEF Next

(* A chain of waiting requests without a bulk reset ends at confirm_counted, *)
(* which waits for nothing.                                                  *)
LEMMA WaitsEnd == IndInv /\ LocksHeld => DeadlockNeedsReset
<1> SUFFICES ASSUME IndInv, LocksHeld, NEW S \in SUBSET Reqs, S # {},
                    \A q \in S : Blocked(q, S),
                    \A q \in S : pc[q] # "votes_payments"
             PROVE  \E q, r \in S : q # r /\ pc[q] \in Locking /\ pc[r] \in Locking
  BY DEF DeadlockNeedsReset
<1>1. \A q \in S : pc[q] # "confirm_counted"
  BY DEF Blocked, Wants, Claiming, Locking
<1>2. \A q \in S : \A c \in Contestants :
         lock[c] \in S => pc[lock[c]] \in Locking /\ c \notin todo[lock[c]]
  <2> SUFFICES ASSUME NEW q \in S, NEW c \in Contestants, lock[c] \in S
               PROVE  pc[lock[c]] \in Locking /\ c \notin todo[lock[c]]
    OBVIOUS
  <2>1. c \in Rows /\ HoldsFor(lock[c], c) /\ c \notin todo[lock[c]]
    BY DEF LocksHeld, Rows
  <2>2. pc[lock[c]] \in Claimed => arg[lock[c]] \in Payments
    BY DEF IndInv, RequestsOK, OnPayment, Serializable
  <2> QED
    BY <2>1, <2>2, <1>1, IdentityAssumption DEF HoldsFor, Locking
<1>3. \A q \in S : pc[q] \in Locking =>
         \E r \in S : r # q /\ pc[r] \in Locking
  <2> SUFFICES ASSUME NEW q \in S, pc[q] \in Locking
               PROVE  \E r \in S : r # q /\ pc[r] \in Locking
    OBVIOUS
  <2>1. Wants(q) = todo[q] /\ todo[q] \subseteq Contestants
    BY DEF Wants, Claiming, Locking, IndInv, RequestsOK
  <2>2. PICK c \in todo[q] : lock[c] \in S
    BY <2>1 DEF Blocked
  <2> QED
    BY <2>1, <2>2, <1>2
<1>4. \E q \in S : pc[q] \in Locking
  <2>1. PICK q \in S : TRUE
    OBVIOUS
  <2>2. CASE pc[q] = "confirm_claimed"
    <3>1. owner[arg[q]] \in Contestants
      BY <2>2 DEF IndInv, RequestsOK, OnPayment, Serializable, Claimed, PaymentsOK, PaymentOK
    <3>2. lock[owner[arg[q]]] \in S
      BY <2>2 DEF Blocked, Wants, Claiming, Locking
    <3> QED
      BY <2>1, <3>1, <3>2, <1>2
  <2>3. CASE pc[q] \in Claiming \cup {"attach"}
    <3> DEFINE r == lock[arg[q]]
    <3>1. arg[q] \in Payments
      BY <2>3 DEF IndInv, RequestsOK, OnPayment, Serializable
    <3>2. r \in S
      BY <2>3 DEF Blocked, Wants, Claiming, Locking
    <3>3. HoldsFor(r, arg[q])
      BY <3>1, <3>2 DEF LocksHeld, Rows
    <3>4. pc[r] \in {"submit_claimed", "reject_claimed"} => Wants(r) = {}
      BY DEF Wants, Claiming, Locking
    <3>5. pc[r] = "confirm_claimed"
      BY <3>1, <3>2, <3>3, <3>4, <1>1, IdentityAssumption DEF HoldsFor, Claimed, Blocked
    <3>6. owner[arg[r]] \in Contestants
      BY <3>2, <3>5 DEF IndInv, RequestsOK, OnPayment, Serializable, Claimed, PaymentsOK, PaymentOK
    <3>7. lock[owner[arg[r]]] \in S
      BY <3>2, <3>5 DEF Blocked, Wants, Claiming, Locking
    <3> QED
      BY <3>2, <3>6, <3>7, <1>2
  <2>4. CASE pc[q] \notin Locking \cup Claiming \cup {"attach", "confirm_claimed"}
    BY <2>4 DEF Blocked, Wants
  <2> QED
    BY <2>1, <2>2, <2>3, <2>4
<1> QED
  BY <1>3, <1>4

(* A deadlock among any number of requests involves a bulk reset (reset,     *)
(* resetVotes): the serializable transactions of voters and administrators   *)
(* lock the payment, then the contestant, and cannot close a cycle.          *)
THEOREM OnlyResetsDeadlock == Spec => []DeadlockNeedsReset
<1>1. Init => LocksHeld
  BY IdentityAssumption DEF Init, LocksHeld, Rows
<1>2. Spec => [](IndInv /\ LocksHeld)
  BY <1>1, StepHolds, Invariance, PTL DEF Spec
<1> QED
  BY <1>2, WaitsEnd, PTL
===============================================================================
