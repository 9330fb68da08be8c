SPECIFICATION Spec
CONSTANTS
  N = 5
  W = 2
  MaxErrors = 2
  MaxRetries = 2
  EarlyTimeouts = TRUE
  NetworkLoses = TRUE
  WritesFail = TRUE
  MaxInFlight = 2
INVARIANTS
  TypeOK
  SenderSuccessIsReal
\* A lost error packet leaves the receiver waiting for good.
CHECK_DEADLOCK FALSE
