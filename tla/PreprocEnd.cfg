CONSTANTS
  Items <- MCItems
  Sources <- MCEndSources
  Prelude <- MCPrelude
  ExeApi <- MCExeApi
  Dirs <- MCDirs
  Home = "/home"
  IncDirs <- MCIncDirs
  Files <- MCFiles
  Dead = ""
SPECIFICATION Spec
INVARIANTS
  NoCrash
