SPECIFICATION Spec
CONSTANTS
  c1 = c1
  c2 = c2
  NoCall = none
  Calls = {c1, c2}
  Sync = {c1}
  Setups <- SlowOrFailing
INVARIANTS
  NothingStranded
  OneInFlight
  ResponsesPaired
  StrayOnlyWhenClosing
PROPERTIES
  StatusGivenOnce
CHECK_DEADLOCK FALSE
