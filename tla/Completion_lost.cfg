SPECIFICATION CFairSpec
CONSTANTS
  Setter = s
  Results = {ok, error}
  NoResult = none
  Waiters = {w1}
  Timed = {}
PROPERTIES
  CompletedWaitReturns
CHECK_DEADLOCK FALSE
