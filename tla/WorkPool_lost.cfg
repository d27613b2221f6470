SPECIFICATION FairSpec
CONSTANTS
  Workers = {w1}
  Posters = {p1}
  Tasks = {t1}
  NoTask = NoTask
  NoWorker = NoWorker
  MaxInterrupts = 0
  MayStop = FALSE
PROPERTIES
  PostedTaskRuns
CHECK_DEADLOCK FALSE
