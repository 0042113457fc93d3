\* One request at a time, three users: an administrator, an agent and one more.  A
\* token of two seconds, of which the client sees one being dropped.
SPECIFICATION ClientsSpec
CONSTANTS
  Users = {u1, u2, u3}
  Profiles = {p1, p2}
  Emails = {m1, m2, m3}
  Sessions = {s1}
  None = None
  Keys = {k1, k2}
  Lifetime = 2
  MaxClock = 5
SYMMETRY ClientSymmetry
INVARIANTS
  ClientsTypeOK
  StaffInOrder
  TokensLiveTheirTime
  LoginIsForTheActive
