SPECIFICATION Spec
CHECK_DEADLOCK FALSE
CONSTANTS
  Kinds <- MCKinds
  Given <- MCGiven
  Alphabet <- MCAlphabet
  Length <- MCLength
  Radix = 3
  MaxMessageSize = 2
  HashLen = 2
  Base = 3
  MaxU64 = 8
  Letters = {"a"}
  Schemes = {"grpc"}
  Addresses <- MCAddresses
  Localhost <- MCLocalhost
  MaxRetries = 1
  DbFiles = {"x", "y"}
  HexDigits <- MCHexDigits
  MaxI64 = 11
  ExponentCap = 4
  DelayCap = 20
  Second = 4
  MinInterval = 1
  MinStale = 10
  LastSecond = 8
INVARIANT MessagesSurvive
INVARIANT TornRecordsAreNoBetter
INVARIANT ArgumentsStayLocal
INVARIANT SpellingsShareALock
INVARIANT ReplicasKeepDatabases
INVARIANT ScriptsRunWhole
INVARIANT CommandsReachTheirTarget
INVARIANT ParametersArrive
INVARIANT ResultsArrive
INVARIANT DelaysInBand
 
