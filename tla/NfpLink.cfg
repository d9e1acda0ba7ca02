SPECIFICATION Spec
CONSTANTS
  in1 = in1
  out1 = out1
  p1 = p1
  Inbound = {in1}
  Outbound = {out1}
  Pubs = {p1}
  Nobody = Nobody
  EarlyClose = TRUE
  SendFails = TRUE
  StaleIds = {"establisher"}
  Unloads = TRUE
INVARIANTS
  PublishedIsTransmitted
  LinkInvariant
PROPERTIES
  LinksEnd
CHECK_DEADLOCK FALSE
