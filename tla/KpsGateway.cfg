CONSTANTS
  f1 = f1
  t1 = t1
  Calls <- TwoCalls
  Kind <- KindOfTwo
  MaxDials = 2
SPECIFICATION FairSpec
INVARIANTS OneSharedDial CleanupExact
PROPERTIES HeadIsDeadlined DeathEndsCalls
CHECK_DEADLOCK FALSE
