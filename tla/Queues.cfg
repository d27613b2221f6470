SPECIFICATION Spec
CONSTANTS
  QProducers = {p1, p2}
  QConsumers = {c1, c2}
  QElements = {1, 2, 3, 4}
  Q_SIZE = 4
  CounterBits = 3
  QStarts = {6}
  NoElement = 0
  WProducers = {p1, p2}
  WConsumers = {c1, c2}
  MaxNodes = 4
  LPushers = {p1, p2}
  LPoppers = {c1, c2}
  LMover = m
  LMaxNodes = 6
  Setter = s
  Results = {ok, error}
  NoResult = none
  Waiters = {w1, w2}
  Timed = {w2}
INVARIANTS
  NoFreedNodeUsed
  WaitReturnsResult
PROPERTIES
  LockFreeQueueIsFifo
  FalseForCause
  ReservedIsCommitted
  WorkQueueIsFifo
  SpinListIsFifo
  WaitEnds
CHECK_DEADLOCK FALSE
