\* Two slots for messages that are used again and again, beside a manager who
\* moves, escalates and calls on the conversation.
SPECIFICATION TimelineSpec
CONSTANTS
  Agents = {}
  Escalations = {e1}
  Priorities = {LOW}
  Manager = Manager
  NoProfile = NoProfile
  None = None
  Conversations = {c1}
  Writers = {w1, w2}
  Customer = Customer
  MaxClock = 1
  MaxId = 3
SYMMETRY WriterSymmetry
INVARIANTS
  TimelineTypeOK
  AnswersComeAfter
  FewLateMessages
