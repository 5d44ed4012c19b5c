SPECIFICATION FairSpec
CONSTANTS
  StageNames <- MCStageNames
  MaxBlock = 2
  Versions <- MCVersions
  Processes = {"p1", "p2"}
  MaxFile = 3
  PageSizes = {4096, 8192}
  Threads = {"t1", "t2"}
  Cursors = {"c", "d"}
  Handles = {"h1", "h2", "h3"}
  Txns = {"ro1", "ro2", "rw"}
  TxnId <- MCTxnId
  Null = "null"
  MaxKey = 4
  Width = 2
  MaxCount = 3
  PrefixDirections = {"Forward"}
INVARIANTS
  TypeOK
  HandlesAccounted
  OpenSound
  WalkTypeOK
  VisitsTarget
  InOrder
PROPERTIES
  StoreImplements
  StagesTogether
  WalkReturns
\* Nothing obliges a program to open a transaction or a cursor.
CHECK_DEADLOCK FALSE
