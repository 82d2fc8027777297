\* Two messages each way, over a call that may die at any moment.
CONSTANTS
  MaxMsgs = 2
  StartMayFail = TRUE
SPECIFICATION Spec
INVARIANTS BatchesAccepted OkIsTrue AssertsHold
PROPERTIES ReadStops CallsReturn
