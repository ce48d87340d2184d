SPECIFICATION Spec
CONSTANTS
  MaxAmps = 40
  Absent = Absent
  Types = {"CONFIG", "STATE"}
  Unidentified = "0x44"
  Names <- MCNames
  ZeroWhenAbsent = {"isEnabled", "totalPower"}
  Aliases <- MCAliases
  Polled = {"CONFIG", "STATE"}
  Wanted <- MCWanted
  Hello = "HELLO"
  Command = "COMMAND"
  NoId = NoId
  Issued = {"SET_MAX_CIRCUIT_CURRENT", "SET_DYNAMIC_CHARGER_CURRENT", "REBOOT"}
  Amperes <- MCAmperes
  Carried = {1, 3}
  MaxRequests = 3
INVARIANTS
  TypeOK
  PollIsWhole
  UnknownIsOfLastPoll
  LimitsAreWhole
PROPERTIES
  CallsEnd
