\* Two bootstrap commands at once, against the promise that the second is refused.
SPECIFICATION RacesSpec
CONSTANTS
  Users = {u1, u2}
  Profiles = {p1, p2}
  Emails = {m1, m2}
  Sessions = {s1, s2}
  None = None
SYMMETRY AccountSymmetry
CHECK_DEADLOCK FALSE
PROPERTIES
  BootstrapIsFirst
