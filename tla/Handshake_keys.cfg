\* Two handshakes begun by each side, with the charger's PIN and with another;
\* the second random number of the client's, and the third of the charger's,
\* is no scalar and drawn again.
SPECIFICATION Spec
CONSTANTS
  Q = 1009
  Pin = 1234
  Pins <- TwoPins
  ClientRandom <- ClientNumbers
  ChargerRandom <- ChargerNumbers
INVARIANTS
  TypeOK
  KeysAgree
  WrongPinDisagrees
CHECK_DEADLOCK FALSE
