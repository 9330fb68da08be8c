SPECIFICATION HandshakeFairSpec
CONSTANTS
  Procs = {1, 2, 3}
  MaxClients = 2
  CharBit = 8
  Masks = {{}}
  Attempts = 2
  Mishaps = {"loss", "late", "early", "SIGINT", "down"}
  MaxMishaps = 1
INVARIANTS HandshakeTypeOK PortGoesToWhoWaits ToldApart NoSlotWithoutClient
PROPERTIES AloneIsServed KeepsAccepting
CONSTRAINT UntilLost
CHECK_DEADLOCK FALSE
