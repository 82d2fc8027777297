\* The call may break or die at any moment.
CONSTANTS
  MaxReads = 3
  MaxMsgs = 3
  ReadMayFail = TRUE
SPECIFICATION CallSpec
INVARIANT OkMeansAllRead
PROPERTY StatusTold
