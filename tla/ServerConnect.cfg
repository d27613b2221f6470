SPECIFICATION Spec
CONSTANTS
  N = 2
  MaxUnanswered = 2
  MaxEagain = 1
INVARIANTS
  ControllersReleased
  AnswersInOrder
  LockstepAnswered
  ErrorCloses
CHECK_DEADLOCK FALSE
