CONSTANTS
  Heads <- HeadsHere
  Calls <- CallsHere
  ReadSize = 4
  MaxHeader = 12
SPECIFICATION Spec
INVARIANTS DeliversBody EndsHonest AbortStops UploadHonest
PROPERTIES FetchSettles
CHECK_DEADLOCK FALSE
