CONSTANTS
  Instances = {a, b}
  Requests <- MCOwnBuilds
  Out <- MCOut
  Sources <- MCSources
  MaxCalls = 1
SPECIFICATION Spec
INVARIANTS
  SigintRestored
