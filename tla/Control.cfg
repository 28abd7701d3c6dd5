CONSTANTS
  MaxGroups = 2
  MaxBlocks = 64
  MaxLabels = 12
  Programs <- MCPrograms
  Backends = {"c", "llvm", "js"}
  Vals = {0, 1, 2}
  MaxInputs = 4
  SwLen = 5
SPECIFICATION Spec
INVARIANTS
  TypeOK
  RunsAsWritten
  BlocksClosed
  Diagnosed
