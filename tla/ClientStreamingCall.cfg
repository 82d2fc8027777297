\* A writer, a reader and two who reply; anything may be refused or die.
CONSTANTS
  CloseCbs = {cb1, cb2}
  NoCb = NoCb
  MaxMsgs = 3
  MayBeBad = {2}
  StartMayFail = TRUE
SPECIFICATION CallSpec
INVARIANTS OkEndToEnd EndsOnce
PROPERTIES CloseAnswered ReaderEnds
