SPECIFICATION Spec
CONSTANTS
  NConns = 2
  Workers = {w1, w2}
  gInitialAccepts = 1
  gMaxAccepts = 1
  gMaxSends = 1
  BURST_ACCEPT_COUNT = 2
  NBufs = 3
  MaxData = 2
  MaxFaults = 1
INVARIANTS
  SendsThrottled
  OperationsCounted
  NothingLeftBehind
CHECK_DEADLOCK FALSE
