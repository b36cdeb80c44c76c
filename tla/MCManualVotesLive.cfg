\* One payment, a contestant who registers, two requests: waits and deadlocks.
SPECIFICATION FairSpec
CONSTANTS
  Payments = {p1}
  Contestants = {c1}
  Founders = {}
  Reqs = {r1, r2}
  Proofs = {img}
  None = None
  MaxAttach = 1
PROPERTY
  RequestsAnswered
