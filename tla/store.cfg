SPECIFICATION Spec
CONSTANTS
  Kids = {a, b}
  Names = {"x", "y"}
  Blocks = 2
  Inodes = {"i", "j", "k"}
  HeaderLength = 2
  LineLength <- Lines
  MAX_READ_LINE = 8
SYMMETRY KidSymmetry
INVARIANTS TypeOK PutIsKept NoPartialFile GetIsWhole ListIsComplete
