\* One payment, webhooks, verifications and one other writer of the wallet.
SPECIFICATION FairSpec
CONSTANTS
  Users = {ada}
  Payments = {p1}
  Contestants = {c1}
  Reqs = {r1, r2}
  Coins <- CoinsPerPayment
  Offers <- OffersSent
  Adjustments <- AdjustmentsSent
  None = None
  MaxCoins = 10
  MaxVotes = 1

PROPERTIES
  PaidIsCredited
  RequestsAnswered
