SPECIFICATION Spec
CONSTANTS
  Base = 4
  Size16 = 1
  Size32 = 2
  Size64 = 3
  kMaxSerializedCompactSize = 9
  CompactValues = {0, 1, 3, 4, 9, 10, 63}
  DataValues = {1, 12}
  StreamBound = 4
  HexLetters = {"0", "f", "X"}
  HexBound = 9
  kSize = 2
  kCoinMaxDecimals = 2
  kCoinMaxSupply = 10
  AmountLimit = 1024
  AmountLetters = {"0", "1", "5", ".", "-"}
  AmountBound = 5
  AmountSteps = {1, 7, 100}
  Divisors = {6, 8}
  QuantityBound = 4095
  TimeUnits <- MCTimeUnits
  Elements = {"a", "b", "c"}
  Capacity = 2
  InsertBound = 6
  MaxClock = 5
  MaxLaps = 5
  DirUsers = {"p", "q"}
  TempNames = {"x", "y"}
  DrawnApart = TRUE
  Handlers = {"h1", "h2", "h3"}
  Codes = {1, 2}
  PanicCount = 4
  ResetQuiet = TRUE
  LogThreads = {"t1", "t2"}
  Levels = {0, 1, 2}
  LineBound = 3
  BlockSize = 4
  LengthSize = 2
  LittleEndian = FALSE
  MaxUpdate = 9
  MaxTotal = 9
  HashBlock = 3
  HashDigest = 2
  HashKeys = 4
  HashInput = 2
  HashFinals = 2
  OldBlock = 6
  OldLength = 2
  OldWrite = 13
  OldTotal = 14
  Chunks <- MCChunks
  ChunkBound = 2
INVARIANTS
  StreamReadsBack
  
  HelpersSound
  SignalAccounting
  LogAgrees
  DigestsAsDefined
  ChainsAsStandard
  HasherTypeOK
  Accounting
PROPERTIES
  DigestOfMessage
\* Every part stops at its bounds, and nothing obliges a program to use any of them.
CHECK_DEADLOCK FALSE
