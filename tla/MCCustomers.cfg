\* Two requests race; two customers, so that one may be deleted and another live.
SPECIFICATION Spec
CONSTANTS
  Customers = {c1, c2}
  Conversations = {k1, k2}
  Requests = {r1, r2}
  Values = {v1}
  None = None
SYMMETRY CustomerSymmetry
INVARIANTS
  CustomersTypeOK
  NoOrphans
PROPERTIES
  OmittedIsKept
  DeletedForGood
