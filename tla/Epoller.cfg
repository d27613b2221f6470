SPECIFICATION FairSpec
CONSTANTS
  Events = {e1}
  Timeout = 1
  MaxTime = 2
  MaxPosts = 3
INVARIANTS
  PointersAlive
  TasksInOrder
PROPERTIES
  PostedTasksRun
  ReadTimersExpire
  StopEndsPoll
CHECK_DEADLOCK FALSE
