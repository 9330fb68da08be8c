SPECIFICATION HandshakeFairSpec
CONSTANTS
  Procs = {1, 2}
  MaxClients = 2
  CharBit = 8
  Masks = {{}}
  Attempts = 3
  Mishaps = {}
  MaxMishaps = 0
PROPERTIES EveryoneIsAnswered
CHECK_DEADLOCK FALSE
