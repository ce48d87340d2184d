\* A caller that may connect again without disconnecting, and another task
\* that may disconnect while it does.
SPECIFICATION FairSpec
CONSTANTS
  MaxClients = 3
  MaxStale = 1
  Disciplined = FALSE
  Overlapping = TRUE
INVARIANTS
  TypeOK
  NoLinkAbandoned
  ClientIsAuthenticated
PROPERTIES
  CallsEnd
CHECK_DEADLOCK FALSE
