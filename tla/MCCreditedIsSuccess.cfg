\* One user with two payments, two requests at a time.
SPECIFICATION Spec
CONSTANTS
  Users = {ada}
  Payments = {p1, p2}
  Contestants = {c1}
  Reqs = {r1, r2}
  Coins <- CoinsPerPayment
  Offers <- OffersSent
  Adjustments <- AdjustmentsSent
  None = None
  MaxCoins = 20
  MaxVotes = 2
SYMMETRY Interchangeable
INVARIANT
  CreditedIsSuccess
