\* Every kind of method, blocking or not; anything may be refused, raise or die.
CONSTANTS
  MaxMsgs = 2
  StartMayFail = TRUE
SPECIFICATION Spec
INVARIANTS OkEndToEnd EndHeardOnce
PROPERTY CallEnds
