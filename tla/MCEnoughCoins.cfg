\* One user; administrators only add coins, so that every debit is a vote.
SPECIFICATION Spec
CONSTANTS
  Users = {ada}
  Payments = {p1, p2}
  Contestants = {c1}
  Reqs = {r1, r2}
  Coins <- CoinsPerPayment
  Offers <- OffersSent
  Adjustments <- GrantsSent
  None = None
  MaxCoins = 20
  MaxVotes = 2
SYMMETRY Interchangeable
INVARIANT
  EnoughCoins
