\* Two requests race.  Two administrators who disable each other at the same time
\* leave no account that may do anything, and the desk really stops.
SPECIFICATION RacesSpec
CONSTANTS
  Users = {u1, u2}
  Profiles = {p1, p2}
  Emails = {m1, m2}
  Sessions = {s1, s2}
  None = None
SYMMETRY AccountSymmetry
CHECK_DEADLOCK FALSE
INVARIANTS
  RacesTypeOK
  EmailsAreUnique
  OneProfilePerUser
  DeactivationIsFelt
  OnlyRacesMisplaceRoles
  OnlyRacesLeaveOnDuty
  UncontestedIsFirst
PROPERTIES
  OnlyTheDeposedTakeTheLast
