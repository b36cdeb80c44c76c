\* Two payments of one contestant, two requests at a time.
SPECIFICATION Spec
CONSTANTS
  Payments = {p1, p2}
  Contestants = {c1}
  Founders = {c1}
  Reqs = {r1, r2}
  Proofs = {img}
  None = None
  MaxAttach = 1
SYMMETRY Interchangeable
INVARIANTS
  TypeOK
  CountedOnce
  DecidedOnce
  BackedVotes
  LossesAudited
  ProofBeforeReview
  ClaimNeverMisses
PROPERTIES
  ImplementsLedger
