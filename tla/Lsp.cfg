SPECIFICATION Spec
CONSTANTS
  Infos = {c1, c2}
  Handles = {s1, s2}
  Apps = {a1, a2}
  Workers = {w1}
  Ols = {o1, o2}
  Requests = {r1, r2}
  NoInfo = NoInfo
  NoHandle = NoHandle
  NoThread = NoThread
  NoOl = NoOl
  NoRequest = NoRequest
  MaxCalls = 3
  MaxFaults = 1
  PoolCount = 1
INVARIANTS
  StructuresConserved
  ContextsConsistent
  NeverOvercounted
PROPERTIES
  RequestsReported
CHECK_DEADLOCK FALSE
