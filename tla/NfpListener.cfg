SPECIFICATION Spec
CONSTANTS
  w1 = w1
  w2 = w2
  Workers = {w1, w2}
  Main = Main
  NoThread = NoThread
  SocketFails = TRUE
  AcceptFails = TRUE
  StaleId = FALSE
  MaxAccepts = 3
INVARIANTS
  HandedStaysOpen
  KeepsAccepting
PROPERTIES
  StopCompletes
