SPECIFICATION Spec
CONSTANTS
  w1 = w1
  w2 = w2
  Workers = {w1, w2}
  Poster = Poster
  NoThread = NoThread
  Protocols = {"tcp", "udp"}
  gOverlappedCount = 2
  PostFails = TRUE
  Resets = TRUE
  RecvErrors = TRUE
  EarlyClose = TRUE
  MaxData = 2
INVARIANTS
  EchoInOrder
  LifetimeInvariant
PROPERTIES
  ConnectionServed
CHECK_DEADLOCK FALSE
