\* A caller who connects again on a drop, or has another task disconnect while
\* he bonds, to a charger that wants a bond.
SPECIFICATION Spec
CONSTANTS
  MaxClients = 3
  MaxStale = 1
  Disciplined = FALSE
  Overlapping = TRUE
INVARIANTS
  BondIsTheClients
CHECK_DEADLOCK FALSE
