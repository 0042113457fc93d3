\* Two requests race, against what holds of one at a time.
SPECIFICATION RacesSpec
CONSTANTS
  Users = {u1, u2}
  Profiles = {p1, p2}
  Emails = {m1, m2}
  Sessions = {s1, s2}
  None = None
SYMMETRY AccountSymmetry
CHECK_DEADLOCK FALSE
INVARIANTS
  ProfilesKeepAgentRole
