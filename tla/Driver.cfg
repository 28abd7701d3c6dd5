CONSTANTS
  Instances = {a}
  Requests <- MCAllRequests
  Out <- MCOut
  Sources <- MCSources
  MaxCalls = 2
SPECIFICATION Spec
INVARIANTS
  TypeOK
  SigintRestored
  HandlesClosed
  NothingLeft
  RunsOwnBuild
  SourcesWhole
PROPERTIES
  DriverOutlivesChild
