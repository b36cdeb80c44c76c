\* One contestant who registers while a resetVotes is under way.
SPECIFICATION Spec
CONSTANTS
  Payments = {p1}
  Contestants = {c1}
  Founders = {}
  Reqs = {r1, r2}
  Proofs = {img}
  None = None
  MaxAttach = 1
SYMMETRY Interchangeable
INVARIANT
  ArchivedExcluded
