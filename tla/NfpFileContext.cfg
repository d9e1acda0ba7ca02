SPECIFICATION Spec
CONSTANTS
  r1 = r1
  r2 = r2
  Requests = {r1, r2}
  NoRequest = NoRequest
  MAX_MESSAGE_QUEUE_SIZE = 2
  AllocationFails = TRUE
  MaxMessages = 3
  MaxEvents = 2
SYMMETRY RequestSymmetry
INVARIANTS
  PendedRequestOwned
  WaitsOnlyForNothing
  DeliveredOnceInOrder
CHECK_DEADLOCK FALSE
