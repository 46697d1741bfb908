SPECIFICATION Spec
CONSTANTS
  REQUEST_QUEUE_SIZE = 2
  ANSWER_QUEUE_SIZE = 1
  TOUCH_QUEUE_SIZE = 3
  MaxVisits = 3
  MaxSubmits = 2
CHECK_DEADLOCK FALSE
INVARIANT StaleByMissedVisits
INVARIANT StatusSettles
INVARIANT TrappedOnlyThere
