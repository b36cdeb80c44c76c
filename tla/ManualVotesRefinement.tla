------------------------- MODULE ManualVotesRefinement -------------------------
(***************************************************************************)
(* Proof that ManualVotes implements VoteLedger, and that its decisions    *)
(* are final, for any number of payments, contestants and requests.        *)
(***************************************************************************)
EXTENDS ManualVotesProofs

(* The steps that only move requests and locks about, or only write rows the *)
(* ledger does not speak of.                                                 *)
Silent == UNCHANGED <<status, owner, credits, tally>>

(* The other steps are commits, each one decision of the ledger.             *)
LEMMA SilentOrCommit ==
    ASSUME Next
    PROVE  \/ Silent
           \/ \E r \in Reqs : \/ \E p \in Payments : InsertIntent(r, p)
                              \/ SubmitCommit(r) \/ ConfirmCommit(r) \/ RejectCommit(r)
                              \/ ResetVotesCommit(r) \/ ResetCommit(r)
           \/ \E c \in Contestants : RemoveFromPublic(c)
<1>1. ASSUME NEW r \in Reqs, Start(r) PROVE Silent
  BY <1>1 DEF Start, CreateIntent, AttachProof, Submit, Confirm, Reject, ResetVotes, Reset,
     Begin, table, Silent
<1>2. ASSUME NEW r \in Reqs, NEW answer, Rollback(r, answer) PROVE Silent
  BY <1>2 DEF Rollback, table, Silent
<1>3. ASSUME NEW r \in Reqs, Abort(r) \/ DeadlockDetected(r) \/ ReferencesCollide(r)
      PROVE  Silent
  BY <1>2, <1>3 DEF Abort, DeadlockDetected, ReferencesCollide
<1>4. ASSUME NEW r \in Reqs, Claim(r) \/ Increment(r) PROVE Silent
  BY <1>2, <1>4 DEF Claim, Increment, table, Silent
<1>5. ASSUME NEW r \in Reqs, ResetVotesPayments(r) \/ \E x \in Rows : LockRow(r, x)
      PROVE  Silent
  BY <1>5 DEF ResetVotesPayments, LockRow, table, Silent
<1>6. ASSUME NEW r \in Reqs, NEW x \in Proofs, StoreProof(r, x) PROVE Silent
  BY <1>6 DEF StoreProof, Silent
<1>7. ASSUME Moderate, ~ \E c \in Contestants : RemoveFromPublic(c) PROVE Silent
  BY <1>7 DEF Moderate, UpdateStatus, Register, SetVoting, Silent
<1> QED
  BY <1>1, <1>3, <1>4, <1>5, <1>6, <1>7 DEF Next, Proceed

(***************************************************************************)
(* One lemma per commit: the decision of the ledger it is.                 *)
(***************************************************************************)
LEMMA InsertIsOpen ==
    ASSUME IndInv, NEW r \in Reqs, NEW p \in Payments, InsertIntent(r, p)
    PROVE  Ledger!Open(p, arg[r]) /\ arg[r] \in Contestants
BY DEF IndInv, RequestsOK, InsertIntent, Exists, Counted, Ledger!Open

LEMMA SubmitIsSubmit ==
    ASSUME IndInv, NEW r \in Reqs, SubmitCommit(r)
    PROVE  Ledger!Submit(arg[r]) /\ arg[r] \in Payments
BY DEF IndInv, RequestsOK, OnPayment, Serializable, Claimed, SnapshotsOK, AsRead,
   SubmitCommit, Counted, Ledger!Submit

LEMMA RejectIsReject ==
    ASSUME IndInv, NEW r \in Reqs, RejectCommit(r)
    PROVE  Ledger!Reject(arg[r]) /\ arg[r] \in Payments
BY DEF IndInv, RequestsOK, OnPayment, Serializable, Claimed, SnapshotsOK, AsRead,
   RejectCommit, Counted, Ledger!Reject

LEMMA ConfirmIsCredit ==
    ASSUME IndInv, NEW r \in Reqs, ConfirmCommit(r)
    PROVE  Ledger!Credit(arg[r]) /\ arg[r] \in Payments
<1> DEFINE p == arg[r]
<1>1. p \in Payments /\ status[p] = "SUBMITTED"
  BY DEF IndInv, RequestsOK, OnPayment, Serializable, Claimed, SnapshotsOK, AsRead, ConfirmCommit
<1>2. p \notin credits
  BY <1>1 DEF IndInv, PaymentsOK, PaymentOK, Undecided
<1>3. Counted' = Counted \cup {p}
  <2>1. tally' = [tally EXCEPT ![p] = @ + 1] /\ tally \in [Payments -> Nat]
    BY DEF ConfirmCommit, IndInv, TypeOK
  <2>2. tally'[p] # 0 /\ \A q \in Payments \ {p} : tally'[q] = tally[q]
    BY <1>1, <2>1
  <2> QED
    BY <1>1, <2>2 DEF Counted
<1> QED
  BY <1>1, <1>2, <1>3 DEF ConfirmCommit, Ledger!Credit

(* Counters zeroed for contestants C are votes leaving the totals.           *)
LEMMA ZeroedUncounts ==
    ASSUME NEW C, IndInv, tally' = Zeroed(C)
    PROVE  Counted' = Counted \ {p \in Payments : owner[p] \in C}
BY DEF Counted, Zeroed

LEMMA ResetVotesIsArchive ==
    ASSUME IndInv, NEW r \in Reqs, ResetVotesCommit(r)
    PROVE  Ledger!Archive(Held(r) \cap Contestants, Held(r) \cap Payments)
<1> DEFINE C == Held(r) \cap Contestants
           P == Held(r) \cap Payments
<1>1. Founders \subseteq C
  BY IdentityAssumption DEF IndInv, ResetsOK, ResetVotesCommit, Held, Rows
<1>2. \A p \in P : status[p] # "ABSENT"
  BY IdentityAssumption DEF IndInv, LocksOK, Held, Exists
<1>3. \A p \in Ledger!VotesFor(C) : status[p] = "CONFIRMED" => p \in P
  BY DEF IndInv, ResetsOK, ResetVotesCommit, Held, Rows, Ledger!VotesFor
<1>4. status' = [p \in Payments |-> IF p \in P THEN "REJECTED" ELSE status[p]]
  BY DEF ResetVotesCommit, Held, Rows
<1>5. Counted' = Counted \ Ledger!VotesFor(C)
  <2>1. \A p \in Payments : owner[p] \in Held(r) <=> owner[p] \in C
    BY IdentityAssumption DEF IndInv, TypeOK, Held, Rows
  <2> QED
    BY <2>1, ZeroedUncounts DEF ResetVotesCommit, Ledger!VotesFor
<1> QED
  BY <1>1, <1>2, <1>3, <1>4, <1>5 DEF ResetVotesCommit, Ledger!Archive

LEMMA ResetIsWipe ==
    ASSUME IndInv, NEW r \in Reqs, ResetCommit(r)
    PROVE  Ledger!Wipe(Held(r) \cap Contestants)
<1>1. \A p \in Payments : owner[p] \in Held(r) <=> owner[p] \in Held(r) \cap Contestants
  BY IdentityAssumption DEF IndInv, TypeOK, Held, Rows
<1> QED
  BY <1>1, ZeroedUncounts DEF ResetCommit, Ledger!VotesFor, Ledger!Wipe

LEMMA RemoveIsWipe ==
    ASSUME IndInv, NEW c \in Contestants, RemoveFromPublic(c)
    PROVE  Ledger!Wipe({c})
BY ZeroedUncounts DEF RemoveFromPublic, Ledger!VotesFor, Ledger!Wipe

LEMMA StepRefines == IndInv /\ [Next]_vars => [Ledger!Next]_(Ledger!vars)
<1> SUFFICES ASSUME IndInv, [Next]_vars PROVE [Ledger!Next]_(Ledger!vars)
  OBVIOUS
<1>1. CASE Silent \/ UNCHANGED vars
  BY <1>1 DEF Silent, vars, table, Ledger!vars, Counted
<1>2. ASSUME NEW r \in Reqs, NEW p \in Payments, InsertIntent(r, p) PROVE Ledger!Next
  BY <1>2, InsertIsOpen DEF Ledger!Next
<1>3. ASSUME NEW r \in Reqs, SubmitCommit(r) \/ ConfirmCommit(r) \/ RejectCommit(r)
      PROVE  Ledger!Next
  BY <1>3, SubmitIsSubmit, ConfirmIsCredit, RejectIsReject DEF Ledger!Next
<1>4. ASSUME NEW r \in Reqs, ResetVotesCommit(r) PROVE Ledger!Next
  <2>1. Held(r) \cap Contestants \in SUBSET Contestants
        /\ Held(r) \cap Payments \in SUBSET Payments
    OBVIOUS
  <2> QED
    BY <1>4, <2>1, ResetVotesIsArchive DEF Ledger!Next
<1>5. ASSUME NEW r \in Reqs, ResetCommit(r) PROVE Ledger!Next
  <2>1. Held(r) \cap Contestants \in SUBSET Contestants
    OBVIOUS
  <2> QED
    BY <1>5, <2>1, ResetIsWipe DEF Ledger!Next
<1>6. ASSUME NEW c \in Contestants, RemoveFromPublic(c) PROVE Ledger!Next
  BY <1>6, RemoveIsWipe DEF Ledger!Next
<1> QED
  BY <1>1, <1>2, <1>3, <1>4, <1>5, <1>6, SilentOrCommit

LEMMA InitRefines == Init => Ledger!Init
BY DEF Init, Ledger!Init, Counted

(* Manual voting, with all its requests, locks, snapshots and failures,      *)
(* implements the atomic ledger.                                             *)
THEOREM Refinement == Spec => ImplementsLedger
<1>1. Spec => []IndInv
  BY Invariance
<1> QED
  BY <1>1, InitRefines, StepRefines, PTL DEF Spec, ImplementsLedger, Ledger!Spec

(* No step of the service deletes a credit, reopens a rejected payment, or   *)
(* takes a founder's confirmed payment back without taking its votes back.   *)
Final ==
    \A p \in Payments :
        /\ p \in credits => p \in credits'
        /\ status[p] = "REJECTED" => status'[p] = "REJECTED"
        /\ status[p] = "CONFIRMED" /\ status'[p] # "CONFIRMED" /\ owner[p] \in Founders
              => status'[p] = "REJECTED" /\ tally'[p] = 0

LEMMA StepFinal == IndInv /\ [Next]_vars => [Final]_vars
<1> SUFFICES ASSUME IndInv, Next PROVE Final
  OBVIOUS
<1> USE DEF Final
<1>1. CASE Silent
  BY <1>1 DEF Silent
<1>2. ASSUME NEW r \in Reqs, NEW p \in Payments, InsertIntent(r, p) PROVE Final
  BY <1>2 DEF InsertIntent, Exists, IndInv, TypeOK
<1>3. ASSUME NEW r \in Reqs, SubmitCommit(r) PROVE Final
  <2>1. arg[r] \in Payments /\ status[arg[r]] = "INTENT_CREATED"
    BY <1>3 DEF SubmitCommit, IndInv, RequestsOK, OnPayment, Serializable, Claimed, SnapshotsOK,
       AsRead
  <2> QED
    BY <1>3, <2>1 DEF SubmitCommit, IndInv, TypeOK
<1>4. ASSUME NEW r \in Reqs, ConfirmCommit(r) \/ RejectCommit(r) PROVE Final
  <2>1. arg[r] \in Payments /\ status[arg[r]] = "SUBMITTED"
    BY <1>4 DEF ConfirmCommit, RejectCommit, IndInv, RequestsOK, OnPayment, Serializable,
       Claimed, SnapshotsOK, AsRead
  <2> QED
    BY <1>4, <2>1 DEF ConfirmCommit, RejectCommit, IndInv, TypeOK
<1>5. ASSUME NEW r \in Reqs, ResetVotesCommit(r) PROVE Final
  <2>1. \A c \in Founders : c \in Held(r)
    BY <1>5, IdentityAssumption DEF ResetVotesCommit, IndInv, ResetsOK, Held, Rows
  <2> QED
    BY <1>5, <2>1 DEF ResetVotesCommit, Zeroed, IndInv, TypeOK
<1>6. ASSUME NEW r \in Reqs, ResetCommit(r) PROVE Final
  BY <1>6 DEF ResetCommit
<1>7. ASSUME NEW c \in Contestants, RemoveFromPublic(c) PROVE Final
  BY <1>7 DEF RemoveFromPublic
<1> QED
  BY <1>1, <1>2, <1>3, <1>4, <1>5, <1>6, <1>7, SilentOrCommit

(* Whatever requests overlap, a credit stays, a rejection stays, and a       *)
(* founder's confirmed payment is withdrawn only with its votes.             *)
THEOREM FinalDecisions == Spec => DecisionsFinal
<1>1. Spec => []IndInv
  BY Invariance
<1>2. [Final]_vars => [\A p \in Payments :
          /\ p \in credits => p \in credits'
          /\ status[p] = "REJECTED" => status'[p] = "REJECTED"
          /\ status[p] = "CONFIRMED" /\ status'[p] # "CONFIRMED" /\ owner[p] \in Founders
                => status'[p] = "REJECTED" /\ tally'[p] = 0]_vars
  BY DEF Final
<1> QED
  BY <1>1, <1>2, StepFinal, PTL DEF Spec, DecisionsFinal

(***************************************************************************)
(* What the ledger promises, whoever implements it.                        *)
(***************************************************************************)
LedgerInv ==
    /\ status \in [Payments -> PaymentStatus]
    /\ \A p \in Counted : owner[p] \in Founders => status[p] = "CONFIRMED"
    /\ \A p \in Payments : status[p] = "ABSENT" => p \notin Counted

LEMMA LedgerStep ==
    LedgerInv /\ [Ledger!Next]_(Ledger!vars) => LedgerInv' /\ Final
<1> SUFFICES ASSUME LedgerInv, [Ledger!Next]_(Ledger!vars) PROVE LedgerInv' /\ Final
  OBVIOUS
<1>0. /\ Counted \subseteq Payments /\ Counted' \subseteq Payments
      /\ \A p \in Payments : (p \in Counted <=> tally[p] # 0) /\ (p \in Counted' <=> tally'[p] # 0)
  BY DEF Counted
<1> USE DEF LedgerInv, Final, PaymentStatus
<1>1. ASSUME NEW p \in Payments, NEW c \in Contestants, Ledger!Open(p, c)
      PROVE  LedgerInv' /\ Final
  <2>1. \A q \in Payments \ {p} : status'[q] = status[q] /\ owner'[q] = owner[q]
    BY <1>1 DEF Ledger!Open
  <2>2. p \notin Counted' /\ Counted' = Counted /\ credits' = credits
    BY <1>1 DEF Ledger!Open
  <2> QED
    BY <1>0, <1>1, <2>1, <2>2 DEF Ledger!Open
<1>2. ASSUME NEW p \in Payments, Ledger!Submit(p) \/ Ledger!Credit(p) \/ Ledger!Reject(p)
      PROVE  LedgerInv' /\ Final
  <2>1. \A q \in Payments \ {p} : status'[q] = status[q]
    BY <1>2 DEF Ledger!Submit, Ledger!Credit, Ledger!Reject
  <2>2. /\ status' \in [Payments -> PaymentStatus]
        /\ status[p] \in {"INTENT_CREATED", "SUBMITTED"} /\ status'[p] # "ABSENT"
    BY <1>2 DEF Ledger!Submit, Ledger!Credit, Ledger!Reject
  <2>3. \/ Counted' = Counted
        \/ Counted' = Counted \cup {p} /\ status'[p] = "CONFIRMED"
    BY <1>2 DEF Ledger!Submit, Ledger!Credit, Ledger!Reject
  <2>4. owner' = owner /\ credits \subseteq credits'
    BY <1>2 DEF Ledger!Submit, Ledger!Credit, Ledger!Reject
  <2>5. LedgerInv'
    BY <1>0, <2>1, <2>2, <2>3, <2>4
  <2> QED
    BY <2>1, <2>2, <2>4, <2>5
<1>3. ASSUME NEW C \in SUBSET Contestants, NEW P \in SUBSET Payments, Ledger!Archive(C, P)
      PROVE  LedgerInv' /\ Final
  <2>1. \A p \in Counted' : p \in Counted /\ owner[p] \notin C
    BY <1>3 DEF Ledger!Archive, Ledger!VotesFor, Counted
  <2>2. \A p \in Payments : status[p] = "CONFIRMED" /\ owner[p] \in C => p \in P
    BY <1>3 DEF Ledger!Archive, Ledger!VotesFor
  <2> QED
    BY <1>0, <1>3, <2>1, <2>2 DEF Ledger!Archive
<1>4. ASSUME NEW C \in SUBSET Contestants, Ledger!Wipe(C) PROVE LedgerInv' /\ Final
  BY <1>0, <1>4 DEF Ledger!Wipe
<1>5. CASE UNCHANGED Ledger!vars
  BY <1>0, <1>5 DEF Ledger!vars
<1> QED
  BY <1>1, <1>2, <1>3, <1>4, <1>5 DEF Ledger!Next

(* Whatever implements the ledger counts a founder's votes only with a       *)
(* confirmed payment behind them, and takes no decision back: both follow    *)
(* from the refinement alone.                                                *)
THEOREM LedgerPromises == ImplementsLedger => []BackedVotes /\ DecisionsFinal
<1>1. Ledger!Init => LedgerInv
  BY DEF Ledger!Init, LedgerInv, PaymentStatus
<1>2. LedgerInv => BackedVotes
  BY DEF LedgerInv, BackedVotes, Counted
<1>3. Final => [\A p \in Payments :
          /\ p \in credits => p \in credits'
          /\ status[p] = "REJECTED" => status'[p] = "REJECTED"
          /\ status[p] = "CONFIRMED" /\ status'[p] # "CONFIRMED" /\ owner[p] \in Founders
                => status'[p] = "REJECTED" /\ tally'[p] = 0]_vars
  BY DEF Final
<1> QED
  BY <1>1, <1>2, <1>3, LedgerStep, PTL DEF ImplementsLedger, Ledger!Spec, DecisionsFinal
===============================================================================
