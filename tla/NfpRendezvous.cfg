SPECIFICATION Spec
CONSTANTS
  m1 = m1
  m2 = m2
  m3 = m3
  Machines = {m1, m2, m3}
  NoMachine = NoMachine
  LockFails = TRUE
  Crashes = TRUE
  MaxFailures = 1
  MaxPresses = 3
INVARIANTS
  OneClientWins
  SuccessMeansClaimed
CHECK_DEADLOCK FALSE
