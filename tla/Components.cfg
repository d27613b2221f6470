SPECIFICATION Spec
CONSTANTS
  s1 = s1
  s2 = s2
  s3 = s3
  s4 = s4
  k1 = k1
  k2 = k2
  k3 = k3
  k4 = k4
  Handles = {h1, h2, h3, h4}
  TimerNodes = {1, 2, 3, 4, 5, 6, 7, 8, 9, 10, 11, 12}
  Trees = {"r", "w"}
  Pollers = {"p1"}
  TreeOf <- MCTreeOf
  PollerOf <- MCPollerOf
  KeyOf <- MCKeyOf
  Timings <- MCTimings
  sentinel = sentinel
  NIL = NIL
  MAX_BUFFER_PIECES = 4
  DEFAULT_BUFFER_SIZE = 3
  MAX_HEADER_SIZE = 3
  HeaderSizes = {1}
  BodySizes = {0, 1, 3, 4}
  ByteIds = 13
  MAX_KEY_LEN = 8
  MAX_METHOD_LEN = 3
  Scripts <- MCScripts
  Services = {s1, s2, s3, s4}
  NameOf <- MCNameOf
  SlotOf <- MCSlotOf
  Finders = {f1, f2}
  NoBoard = none
  Calls = {k1, k2, k3, k4}
  TimeOf <- MCTimeOf
  MAX_NUM = 5
  MaxClears = 2
  LogThreads = {t1, t2}
  Closer = t1
  PerThread = 2
  Hour = 2
  MaxDelay = 1
  Start = 3
  MaxClock = 7
  NLWorkers = {w1, w2}
  NLTasks = {t1, t2}
  Capacity = 2
  MaxInterrupts = 1
  MaxGets = 2
  MaxPosts = 3
  NoTask = nt
  NoWorker = nw
INVARIANTS
  HandlesCounted
  TimerTree
  BufferDelivers
  ParsedIsSent
  StatusCountsCalls
  LinesWritten
  FirstRoundSafe
PROPERTIES
  ServicesFound
  AllHanded
CHECK_DEADLOCK FALSE
