SPECIFICATION FairSpec
CONSTANTS
  Workers = {w1, w2}
  Posters = {p1, p2}
  Tasks = {t1, t2}
  NoTask = NoTask
  NoWorker = NoWorker
  MaxInterrupts = 1
  MayStop = TRUE
INVARIANTS
  NobodyForgotten
  TaskInOnePlace
PROPERTIES
  GivenTasksRun
  StopEndsWorkers
CHECK_DEADLOCK FALSE
