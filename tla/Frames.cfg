\* A reader stops once it has a frame, or no hope of one, and a charger once
\* it has no more to say.
SPECIFICATION Spec
CONSTANTS
  Continue = 128
  Sign = 1048576
  FloatSize = 2
  DoubleSize = 3
  Characters <- MCCharacters
  Printable <- MCPrintable
  HeaderLen = 6
  Types = {64}
  HeaderBytes <- MCHeaderBytes
  BodyBytes <- MCBodyBytes
  MaxBody = 4
  Fields <- MCFields
  Depth <- MCDepth
  MaxFields = 3
INVARIANTS
  TypeOK
  Reassembles
  OpaqueFieldsDecode
  RoundTrip
  CutIsContained
CHECK_DEADLOCK FALSE
