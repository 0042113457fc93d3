\* Two agents, so that a case can change hands; two escalation ids, so that a
\* case can be escalated again after the first escalation was resolved.
SPECIFICATION Spec
CONSTANTS
  Agents = {a1, a2}
  Escalations = {e1, e2}
  Priorities = {LOW, HIGH}
  Manager = Manager
  NoProfile = NoProfile
  None = None
  Conversations = {c1}
SYMMETRY DeskSymmetry
INVARIANTS
  TypeOK
  OneEscalationInForce
  NoCallOutlivesConversation
  AssigneesAgree
  StampsAgree
PROPERTIES
  HistoryIsKept
  KeepsContract
