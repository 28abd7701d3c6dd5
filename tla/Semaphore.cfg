CONSTANTS
  Threads = {t1, t2, t3}
  None = None
  Initial = 0
  Maximum = 2
  Counts <- MCCounts
  MaxCalls = 4
  LifeCalls = 2
  MaxSpurious = 1
  WaitMayFail = TRUE
  Order <- MCOrder
  Leaves <- MCLeaves
SPECIFICATION FairLifeSpec
INVARIANTS
  TypeOK
  CountInRange
  NoLostWakeup
  NothingStale
  AllReleased
PROPERTIES
  ImplementsAtomic
  SleepersServed
  OperationsReturn
