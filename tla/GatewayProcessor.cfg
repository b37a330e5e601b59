\* A shut-down processor has nothing left to do.
CHECK_DEADLOCK FALSE
CONSTANTS
  Keys = {gw1, gw2}
  Goroutines = {t1, t2, t3}
  NoKey = NoKey
  MaxAttempts = 2
  MaxChanges = 1
SPECIFICATION FairSpec
INVARIANTS
  TypeOK
  MutualExclusion
  NoLostEvent
PROPERTIES
  ImplementsKeyQueue
  EventuallyObserved
  WindsDown
