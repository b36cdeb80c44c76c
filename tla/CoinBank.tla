------------------------------- MODULE CoinBank -------------------------------
(***************************************************************************)
(* What coins promise, without requests, transactions or Paystack's        *)
(* answers: each purchase is credited in one step, at most once, after it  *)
(* was paid, to the user who made it; every other movement of a wallet is  *)
(* one adjustment or one vote, booked with it.  One thing is conceded: the *)
(* balance written with a movement may have been computed from an old one, *)
(* and then the user is among those of whom coins may be lost.             *)
(***************************************************************************)
EXTENDS Integers

CONSTANTS Users, Payments, Contestants, Coins, Offers, Adjustments, None

VARIABLES
    buyer,      \* who a payment belongs to
    funded,     \* payments that were paid
    credited,   \* payments turned into coins
    wallets,    \* users who have a wallet
    balance,    \* what a wallet shows
    booked,     \* the sum of a wallet's transactions
    voted,      \* coin votes of each contestant
    lost        \* users of whom an old balance was written back

vars == <<buyer, funded, credited, wallets, balance, booked, voted, lost>>

Init ==
    /\ buyer = [p \in Payments |-> None]
    /\ funded = {} /\ credited = {} /\ wallets = {} /\ lost = {}
    /\ balance = [u \in Users |-> 0]
    /\ booked = [u \in Users |-> 0]
    /\ voted = [c \in Contestants |-> 0]

Purchase(p, u) ==
    /\ buyer[p] = None
    /\ buyer' = [buyer EXCEPT ![p] = u]
    /\ UNCHANGED <<funded, credited, wallets, balance, booked, voted, lost>>

Pay(p) ==
    /\ buyer[p] # None
    /\ funded' = funded \cup {p}
    /\ UNCHANGED <<buyer, credited, wallets, balance, booked, voted, lost>>

OpenWallet(u) ==
    /\ wallets' = wallets \cup {u}
    /\ UNCHANGED <<buyer, funded, credited, balance, booked, voted, lost>>

(* A movement of n coins in the wallet of u, shown exactly, or computed from *)
(* some balance that is not the one of this moment.                          *)
Exactly(u, n) ==
    /\ balance[u] + n >= 0
    /\ balance' = [balance EXCEPT ![u] = @ + n]
    /\ UNCHANGED lost

FromOld(u, n) ==
    /\ balance' \in [Users -> Nat]
    /\ balance'[u] - n >= 0
    /\ \A w \in Users \ {u} : balance'[w] = balance[w]
    /\ lost' = lost \cup {u}

Book(u, n) ==
    /\ wallets' = wallets \cup {u}
    /\ booked' = [booked EXCEPT ![u] = @ + n]

Credit(p) ==
    /\ p \in funded \ credited
    /\ credited' = credited \cup {p}
    /\ Book(buyer[p], Coins[p]) /\ Exactly(buyer[p], Coins[p])
    /\ UNCHANGED <<buyer, funded, voted>>

Adjust(u, n) ==
    /\ Book(u, n) /\ (Exactly(u, n) \/ FromOld(u, n))
    /\ UNCHANGED <<buyer, funded, credited, voted>>

(* Ten coins a vote, counted and booked together.                            *)
Spend(u, c, coins) ==
    /\ coins >= 10 /\ coins % 10 = 0
    /\ u \in wallets
    /\ Book(u, -coins) /\ (Exactly(u, -coins) \/ FromOld(u, -coins))
    /\ voted' = [voted EXCEPT ![c] = @ + coins \div 10]
    /\ UNCHANGED <<buyer, funded, credited>>

Next ==
    \/ \E p \in Payments, u \in Users : Purchase(p, u)
    \/ \E p \in Payments : Pay(p) \/ Credit(p)
    \/ \E u \in Users : OpenWallet(u)
    \/ \E u \in Users, n \in Adjustments : Adjust(u, n)
    \/ \E u \in Users, c \in Contestants, coins \in Offers : Spend(u, c, coins)

Spec == Init /\ [][Next]_vars
===============================================================================
