SPECIFICATION Spec
CONSTANTS
  Data = {a, b}
  Pad = pad
  MaxLeaves = 7
INVARIANTS
  RootIsReference
  PathsVerify
  PathsBind
