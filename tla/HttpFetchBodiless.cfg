CONSTANTS
  Heads <- HeadsHere
  Calls <- CallsHere
  ReadSize = 4
  MaxHeader = 12
SPECIFICATION Spec
INVARIANTS BodilessResolves
CHECK_DEADLOCK FALSE
