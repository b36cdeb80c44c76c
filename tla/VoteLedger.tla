------------------------------ MODULE VoteLedger ------------------------------
(***************************************************************************)
(* What manual voting promises, without requests, snapshots or locks: each *)
(* payment moves through its statuses one atomic decision at a time; being *)
(* confirmed, being in the credit ledger and counting toward the           *)
(* contestant's total begin in the same step.                              *)
(***************************************************************************)
EXTENDS FiniteSets

CONSTANTS Payments, Contestants, Founders, None

VARIABLES
    status,     \* of each payment
    owner,      \* the contestant a payment votes for
    credits,    \* the credit ledger: payments ever credited
    counted     \* payments whose votes are part of their contestant's total

vars == <<status, owner, credits, counted>>

Init ==
    /\ status = [p \in Payments |-> "ABSENT"]
    /\ owner = [p \in Payments |-> None]
    /\ credits = {}
    /\ counted = {}

Open(p, c) ==
    /\ status[p] = "ABSENT"
    /\ status' = [status EXCEPT ![p] = "INTENT_CREATED"]
    /\ owner' = [owner EXCEPT ![p] = c]
    /\ UNCHANGED <<credits, counted>>

Submit(p) ==
    /\ status[p] = "INTENT_CREATED"
    /\ status' = [status EXCEPT ![p] = "SUBMITTED"]
    /\ UNCHANGED <<owner, credits, counted>>

Credit(p) ==
    /\ status[p] = "SUBMITTED"
    /\ p \notin credits
    /\ status' = [status EXCEPT ![p] = "CONFIRMED"]
    /\ credits' = credits \cup {p}
    /\ counted' = counted \cup {p}
    /\ UNCHANGED owner

Reject(p) ==
    /\ status[p] = "SUBMITTED"
    /\ status' = [status EXCEPT ![p] = "REJECTED"]
    /\ UNCHANGED <<owner, credits, counted>>

VotesFor(C) == {p \in Payments : owner[p] \in C}

(* A vote reset zeroes contestants C and archives payments P: nobody there   *)
(* from the start is spared, and no confirmed payment loses its votes        *)
(* without being archived.                                                   *)
Archive(C, P) ==
    /\ Founders \subseteq C
    /\ \A p \in P : status[p] # "ABSENT"
    /\ \A p \in VotesFor(C) : status[p] = "CONFIRMED" => p \in P
    /\ status' = [p \in Payments |-> IF p \in P THEN "REJECTED" ELSE status[p]]
    /\ counted' = counted \ VotesFor(C)
    /\ UNCHANGED <<owner, credits>>

(* A competition reset or a removal zeroes contestants and keeps payments.   *)
Wipe(C) ==
    /\ counted' = counted \ VotesFor(C)
    /\ UNCHANGED <<status, owner, credits>>

Next ==
    \/ \E p \in Payments, c \in Contestants : Open(p, c)
    \/ \E p \in Payments : Submit(p) \/ Credit(p) \/ Reject(p)
    \/ \E C \in SUBSET Contestants, P \in SUBSET Payments : Archive(C, P)
    \/ \E C \in SUBSET Contestants : Wipe(C)

Spec == Init /\ [][Next]_vars
===============================================================================
