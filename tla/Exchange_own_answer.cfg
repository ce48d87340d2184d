\* The same command twice, the first answer late.
SPECIFICATION Spec
CONSTANTS
  COMMAND = COMMAND
  CONFIG = CONFIG
  DEBUG = DEBUG
  start = start
  selfTest = selfTest
  none = none
  Channels = {COMMAND, CONFIG, DEBUG}
  Command = COMMAND
  Subscribed = {COMMAND, CONFIG}
  Resolved = {COMMAND, DEBUG}
  Heard = {COMMAND}
  CommandIds = {start, selfTest}
  SlowCommands = {selfTest}
  NoId = none
  WriteAttempts = 2
  ReplyTimeout = 1
  SlowReplyTimeout = 2
  MaxRequests = 2
  MaxQueued = 2
INVARIANTS
  OwnAnswer
CHECK_DEADLOCK FALSE
