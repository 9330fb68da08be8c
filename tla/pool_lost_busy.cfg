SPECIFICATION Spec
CONSTANTS
  MaxClients = 2
  CharBit = 8
  Procs = {1, 2, 3}
  Masks = {{}}
INVARIANT PortsAreExclusive
