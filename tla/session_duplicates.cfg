SPECIFICATION FairSpec
CONSTANTS
  Names = {"alpha", "bravo"}
  NameLength <- Five
  ClientFiles = {"alpha"}
  ServerFiles = {"bravo"}
  ListParts = {1}
  Mishaps = {"stray"}
  MaxMishaps = 1
  MaxUnread = 1

PROPERTIES DuplicatesAreConsumed
CHECK_DEADLOCK FALSE
