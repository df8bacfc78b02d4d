CONSTANTS
  s1 = s1
  s2 = s2
  ip = ip
  Streams <- StreamSet
  Ips <- IpSet
  IpOf <- IpMap
  PerIp = 1
  Asks <- AskMap
  HasIpv6 = TRUE
  MaxUnits <- Units
SPECIFICATION FairSpec
INVARIANTS RelayFaithful SlotsMatchTunnels
PROPERTY EveryTunnelEnds
CHECK_DEADLOCK FALSE
