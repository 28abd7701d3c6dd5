CONSTANTS
  ByteBits = 2
  WordSize = 4
  JsExact = 7
  JsInt32 = 4
  Vars <- MCVars
  Lits <- MCLits
  Casts <- MCCasts
  Views <- MCViews
  Fields <- MCFields
  Arrows <- MCArrows
  Taken <- MCTaken
  Inputs <- MCOddities
SPECIFICATION Spec
INVARIANTS
  UnitAsDocumented
CHECK_DEADLOCK FALSE
