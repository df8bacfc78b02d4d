CONSTANTS
  k1 = k1
  k2 = k2
  NoOne = 0
  Stuck = Stuck
  Clients <- ClientsHere
  Calls <- CallsHere
  Levels <- LevelsHere
SPECIFICATION LifeSpec
PROPERTIES CloseReleases
CHECK_DEADLOCK FALSE
