CONSTANTS
  ByteBits = 2
  WordSize = 4
  JsExact = 7
  JsInt32 = 4
  Vars <- MCVars
  Lits <- MCLits
  Casts <- MCCasts
  Views <- MCViews
  Fields <- MCFields
  Arrows <- MCArrows
  Taken <- MCTaken
  Inputs <- MCInputs
SPECIFICATION Spec
INVARIANTS
  NativeAsWritten
  JsAsWritten
  ConstAgrees
  DirectiveAgrees
  ExprDiagnosed
  MembersApart
  MembersInside
  StaysAligned
CHECK_DEADLOCK FALSE
