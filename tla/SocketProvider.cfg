CONSTANTS
  g1 = g1  g2 = g2  g3 = g3
  o1 = o1  o2 = o2
  Gateways <- GatewaySet
  Order <- Shuffle
  Ops <- OpSet
  HasDirect = TRUE
  CooldownBase = 1
  CooldownMax = 2
  FailureCap = 2
SPECIFICATION Spec
INVARIANTS SelectionSound FailsOnlyAfterAll
