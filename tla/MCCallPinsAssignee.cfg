\* What the README says of calls and assignments, against the handlers.
SPECIFICATION Spec
CONSTANTS
  Agents = {a1, a2}
  Escalations = {e1}
  Priorities = {LOW}
  Manager = Manager
  NoProfile = NoProfile
  None = None
  Conversations = {c1}
PROPERTIES
  ActiveCallPinsAssignee
