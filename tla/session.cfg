SPECIFICATION FairSpec
CONSTANTS
  Names = {"alpha", "bravo"}
  NameLength <- Five
  ClientFiles = {"alpha"}
  ServerFiles = {"bravo"}
  ListParts = {1}
  Mishaps = {"loss", "late", "stray", "disagree", "open", "SIGINT", "SIGQUIT", "SIGTERM"}
  MaxMishaps = 1
  MaxUnread = 1
INVARIANTS TypeOK InStep PutIsStored GotIsRight
PROPERTIES BackToPrompt EndTogether InterruptedAtPrompt ShutdownAtPrompt
CHECK_DEADLOCK FALSE
