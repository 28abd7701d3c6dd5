CONSTANTS
  Stmts <- MCStmts
  FuncList <- MCFuncList
  Startup = "main"
  Prelude <- MCPrelude
  UserExterns <- MCUserExterns
  Programs <- MCPrograms
  Chars <- MCChars
  TryMax = 3
  MaxStack = 12
SPECIFICATION FairSpec
INVARIANTS
  TypeOK
  FramesMatchStack
  NoWildJump
  AnalysisExact
PROPERTIES
  AnalysisTerminates
  QuietFunctionsStayQuiet
  InnermostHandler
  ImplementsHandlerSearch
