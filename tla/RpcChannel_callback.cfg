SPECIFICATION Spec
CONSTANTS
  c1 = c1
  c2 = c2
  NoCall = none
  Calls = {c1, c2}
  Sync = {c1}
  Setups <- AsyncTimeout
INVARIANTS
  CallbackInforms
CHECK_DEADLOCK FALSE
