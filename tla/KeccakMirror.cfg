CONSTANTS
  h1 = h1  h2 = h2
  c1 = c1  c2 = c2
  Poll = Poll
  NoOne = NoOne
  Hashes <- HashSet
  Clients <- ClientSet
  Window = 2
  MaxPushes = 1
  MaxCrashes = 2
SPECIFICATION FairSpec
INVARIANTS ServedBytesMatch
PROPERTIES TriggersThrottled PublishedStays PollGetsItsTurn Converges
CHECK_DEADLOCK FALSE
