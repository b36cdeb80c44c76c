----------------------------- MODULE MCCoinLedger -----------------------------
(* TLC instances of CoinLedger.                                              *)
EXTENDS CoinLedger, TLC

CoinsPerPayment == [p \in Payments |-> 10]
OffersSent == {5, 10}
AdjustmentsSent == {-10, 0, 10}
GrantsSent == {10}

Interchangeable == Permutations(Payments) \cup Permutations(Reqs)
===============================================================================
