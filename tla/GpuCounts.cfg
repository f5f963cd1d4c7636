SPECIFICATION ControlSpec
CONSTANTS
  Parts = {"config"}
  p1 = p1
  p2 = p2
  g1 = g1
  g2 = g2
  Processes = {p1, p2}
  Regions = {0, 1}
  Octet = 2
  PoolOctets = 2
  RegionEnd = 4
  SubnetEnd = 4
  Endpoints = {"e1", "e2"}
  MaxIds = 2
  ClusterNodes = {"n1"}
  Unknown = "n0"
  WorkloadIds = {"w1"}
  Reuse = FALSE
  MaxRequests = 3
  MaxPings = 1
INVARIANT CountedGpusGiven
CHECK_DEADLOCK FALSE
