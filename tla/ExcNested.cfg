CONSTANTS
  Stmts <- MCNestedStmts
  FuncList <- MCFuncList
  Startup = "main"
  Prelude <- MCPrelude
  UserExterns <- MCUserExterns
  Programs <- MCNestedPrograms
  Chars <- MCChars
  TryMax = 3
  MaxStack = 12
SPECIFICATION HSpec
PROPERTIES
  SwallowOnlyClaimed
