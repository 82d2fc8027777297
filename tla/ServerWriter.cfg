\* Every operation, any batch may be refused: answers, order, refinement and
\* liveness.
CONSTANTS
  t1 = t1  t2 = t2  cq = cq
  Threads = {t1, t2, cq}
  CqThread = cq
  OK = OK  NoStatus = NoStatus
  Status = {OK, Failed}
  Calls <- AllCalls
  HighSizes = {1}
  InitHighSize = 2
  MaxMsgs = 3
  StartMayFail = TRUE
SPECIFICATION Spec
INVARIANTS AnswersAreTrue EndsWithStatus
PROPERTIES ImplementsStream ReleaseEnds SyncCallsReturnUnlessWild
