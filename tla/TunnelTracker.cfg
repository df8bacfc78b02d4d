SPECIFICATION Spec
CONSTANTS
  s1 = s1  s2 = s2  s3 = s3  s4 = s4  s5 = s5
  c1 = c1  c2 = c2  c3 = c3
  ipA = ipA  ipB = ipB
  Streams <- MCStreams
  Conns <- MCConns
  Ips <- MCIps
  ConnOf <- MCConnOf
  IpOf <- MCIpOf
  MaxTunnels = 2
  PerIp = 2
  PerConn = 2
  Workers = 2
INVARIANTS CountersExact GlobalOvershootBounded
PROPERTIES NoSpuriousRefusal ImplementsSlots
