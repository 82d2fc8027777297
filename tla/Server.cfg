\* Register, run, and shut down at any moment.
CONSTANTS
  s = s
  t = t
  Services <- TwoServices
  ClientStreaming <- Streams
  MethodCount = 1
  MaxRegs = 2
  MaxCalls = 2
SPECIFICATION Spec
INVARIANTS StaysRequested AssertsHold
PROPERTY CallsAreGiven
