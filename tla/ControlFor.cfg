CONSTANTS
  MaxGroups = 2
  MaxBlocks = 64
  MaxLabels = 12
  Programs <- MCForClauses
  Backends = {"c", "llvm", "js"}
  Vals = {0, 1, 2}
  MaxInputs = 4
  SwLen = 0
SPECIFICATION Spec
INVARIANTS
  AsWritten
