SPECIFICATION Spec
CONSTANTS
  Channels = {"HELLO", "STATE", "DEBUG"}
  Hello = "HELLO"
  Subscribed = {"HELLO", "STATE"}
  Handles = {1, 2, 3}
  NoService = NoService
  Tables <- MCTables
  MaxLinks = 3
INVARIANTS
  TypeOK
  HandlersReleased
  FieldsAreThisLinks
  NotifyOkIsTrue
  HandshakeCanBeHeard
