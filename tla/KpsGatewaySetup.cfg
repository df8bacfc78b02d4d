CONSTANTS
  f1 = f1
  t1 = t1
  Calls <- TwoCalls
  Kind <- KindOfTwo
  MaxDials = 2
SPECIFICATION FairSpec
PROPERTY SetupBounded
CHECK_DEADLOCK FALSE
