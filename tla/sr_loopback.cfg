SPECIFICATION FairSpec
CONSTANTS
  N = 7
  W = 3
  MaxErrors = 3
  MaxRetries = 2
  EarlyTimeouts = FALSE
  NetworkLoses = FALSE
  WritesFail = FALSE
  MaxInFlight = 0
INVARIANTS
  AckedIsReceived
  WrittenInOrder
  SenderSocketIsClean
  OutcomesAgree
