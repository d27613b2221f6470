SPECIFICATION FairSpec
CONSTANTS
  Callers = {c1, c2}
  Tasks = {t1, t2, t3}
  Masks = {READ, CLOSE, RTIME}
  Poller = c1
INVARIANTS
  OneHandler
  PendingAsserted
  NoUseAfterDelete
PROPERTIES
  RaisedReachHandler
  ImplementsSerialHandler
CHECK_DEADLOCK FALSE
