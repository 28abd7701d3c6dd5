CONSTANTS
  Items <- MCItems
  Sources <- MCSources
  Prelude <- MCPrelude
  ExeApi <- MCExeApi
  Dirs <- MCDirs
  Home = "/home"
  IncDirs <- MCIncDirs
  Files <- MCFiles
  Dead = ""
SPECIFICATION FairSpec
INVARIANTS
  TypeOK
  OneLiveEntry
  MatchesReference
  PrefixComplete
PROPERTIES
  Terminates
