SPECIFICATION FairSpec
CONSTANTS
  N = 5
  W = 2
  MaxErrors = 2
  MaxRetries = 2
  EarlyTimeouts = TRUE
  NetworkLoses = FALSE
  WritesFail = FALSE
  MaxInFlight = 2
INVARIANTS
  Integrity
  SlotsAdvance
  IInv
PROPERTIES
  ImplementsFileTransfer
  Termination
