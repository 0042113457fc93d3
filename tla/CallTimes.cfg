\* Four seconds in half seconds: a call may last some seconds, and the clock may go
\* back past the answer.
SPECIFICATION CallTimesSpec
CONSTANTS
  None = None
  MaxClock = 8
  MaxSkew = 6
INVARIANTS
  CallTimesTypeOK
  DurationIsTalk
PROPERTIES
  EndedCallKeepsItsTimes
  FollowsDesk
