\* Blocking calls after a refused batch.
CONSTANTS
  t1 = t1  t2 = t2  cq = cq
  Threads = {t1, t2, cq}
  CqThread = cq
  Calls <- SyncCalls
  OK = OK  NoStatus = NoStatus
  Status = {OK, Failed}
  HighSizes = {1}
  InitHighSize = 1
  MaxMsgs = 3
  StartMayFail = TRUE
SPECIFICATION Spec
PROPERTIES SyncCallsReturn
