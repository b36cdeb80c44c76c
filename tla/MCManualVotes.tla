---------------------------- MODULE MCManualVotes ----------------------------
(* TLC instances of ManualVotes: payments, requests and proofs are           *)
(* interchangeable, contestants are not (founders and newcomers).            *)
EXTENDS ManualVotes, TLC

Interchangeable ==
    Permutations(Payments) \cup Permutations(Reqs) \cup Permutations(Proofs)
==============================================================================
