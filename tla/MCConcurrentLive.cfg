\* The same race between callers who are not the assignee of anything, without
\* symmetry and under fairness.
SPECIFICATION FairSpec
CONSTANTS
  Agents = {}
  Escalations = {e1}
  Priorities = {LOW}
  Manager = Manager
  NoProfile = NoProfile
  None = None
  Conversations = {c1}
  Requests = {r1, r2}
PROPERTIES
  RequestsFinish
