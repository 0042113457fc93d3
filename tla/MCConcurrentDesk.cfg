\* Two requests race for one conversation with two agents and one escalation.
SPECIFICATION ConcurrentSpec
CONSTANTS
  Agents = {a1, a2}
  Escalations = {e1}
  Priorities = {LOW}
  Manager = Manager
  NoProfile = NoProfile
  None = None
  Conversations = {c1}
  Requests = {r1, r2}
SYMMETRY ConcurrentSymmetry
INVARIANTS
  ConcurrentTypeOK
  DecisionsStayValid
PROPERTIES
  Serializable
  OnlyTheResponsibleWrites
