CONSTANTS
  Stmts <- MCLeaveStmts
  FuncList <- MCFuncList
  Startup = "main"
  Prelude <- MCPrelude
  UserExterns <- MCUserExterns
  Programs <- MCLeavePrograms
  Chars <- MCChars
  TryMax = 3
  MaxStack = 12
SPECIFICATION Spec
PROPERTIES
  ImplementsHandlerSearch
