SPECIFICATION FairSpec
CONSTANTS
  Requests = {r1, r2}
  Terminals = {t1}
  Windows = {w1}
  Chunks = 2
  MaxOutput = 1
  MaxOps = 2
INVARIANTS
  LinkQuiet
  UploadExact
PROPERTIES
  RequestsSettle
  PartialRemoved
  SocketsFreed
CHECK_DEADLOCK FALSE
