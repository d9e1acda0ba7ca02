SPECIFICATION Spec
CONSTANTS
 NConns = 2
 NBufs = 4
 NThreads = 2
 MAXIMUM_WAIT_OBJECTS = 4
 gOverlappedCount = 2
 gConnectionCount = 2
 gSendCount = 3
 NAddrs = 2
 Window = 1
 DEFAULT_SEND_COUNT = 3
 PingTtl = 2
 TraceTtl = 4
 SystemTtl = 128
 Distances = {1, 2, 3}
 Ticks <- MCTicks
 Ids = {1, 65535}
 MaxRequests = 4
 NSessions = 3
 LockTries = 1
 User <- Ann
 Gateways <- MCGateways
 Bases <- Protocols
 Layers = {ours, other}
 Unspec = 0
 Raw = 3
 MaxRuns = 4
 MaxFaults = 1
INVARIANTS CompletionsAreSeen ObjectsOutliveOps AcceptsAccounted FinishesWhatItCounts ClientNeverStuck RequestsVerify TraceIsTrue AccessIsOwned LayersAreServed
PROPERTIES OrderKept
CHECK_DEADLOCK FALSE
