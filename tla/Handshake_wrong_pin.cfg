\* Another PIN than the charger's, in an exchange that goes as it should.
SPECIFICATION Spec
CONSTANTS
  Q = 1009
  Pin = 1234
  Pins <- TwoPins
  ClientRandom <- ClientNumbers
  ChargerRandom <- ChargerNumbers
INVARIANTS
  WrongPinRaises
CHECK_DEADLOCK FALSE
