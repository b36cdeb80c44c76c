\* One payment, two uploads of different images.
SPECIFICATION Spec
CONSTANTS
  Payments = {p1}
  Contestants = {c1}
  Founders = {c1}
  Reqs = {r1, r2}
  Proofs = {imgA, imgB}
  None = None
  MaxAttach = 2
PROPERTY
  ProofFrozen
