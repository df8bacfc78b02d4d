CONSTANTS
  Keys <- KeysHere
  Backends = {"ordered", "files"}
  Consensus = "cons"
  Archives <- ArchivesHere
  MaxStarts = 3
  MaxOps = 1
  MaxFails = 1
SPECIFICATION Spec
INVARIANTS WriteBackConverges SkipMeansWhole ParseSound
CHECK_DEADLOCK FALSE
