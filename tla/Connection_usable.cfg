\* A drop of another link that is reported while connecting, or afterwards, with
\* a caller who does all as he should.
SPECIFICATION Spec
CONSTANTS
  MaxClients = 3
  MaxStale = 1
  Disciplined = TRUE
  Overlapping = FALSE
INVARIANTS
  Usable
CHECK_DEADLOCK FALSE
