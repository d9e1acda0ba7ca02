SPECIFICATION Spec
CONSTANTS
  r1 = r1
  r2 = r2
  Requests = {r1, r2}
  NoRequest = NoRequest
  MAX_MESSAGE_QUEUE_SIZE = 2
  AllocationFails = FALSE
  MaxMessages = 3
  MaxEvents = 1
SYMMETRY RequestSymmetry
INVARIANTS
  QueueWithinMaximum
CHECK_DEADLOCK FALSE
