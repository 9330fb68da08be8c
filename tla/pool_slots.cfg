SPECIFICATION AnsweredSpec
CONSTANTS
  MaxClients = 2
  CharBit = 8
  Procs = {1, 2, 3}
  Masks = {{}, {"SIGINT"}}
INVARIANTS TypeOK PidsAreCurrent ExclusiveUnlessLost NoOrphans
PROPERTIES SlotsComeBack ShutdownEnds
CONSTRAINT UntilLost
