\* Callbacks call the object again, any batch may be refused or fail.
CONSTANTS
  Calls <- Reentrant
  MaxMsgs = 4
  MaxReads = 3
  StartMayFail = TRUE
SPECIFICATION Spec
INVARIANTS AssertsHold ErrorReported OkIsTrue
PROPERTY ImplementsStream
