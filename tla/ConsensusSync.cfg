CONSTANTS
  Periods = 2
  Lifetime = 1
  Listed <- ListedMC
  Forged <- ForgedMC
  MaxCrashes = 1
SPECIFICATION RouteSpec
INVARIANTS OnlyVerifiedPublished AllowlistCovers ServedTagFits
PROPERTIES NoRollback CatchesUp
