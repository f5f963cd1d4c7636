SPECIFICATION ControlSpec
CONSTANTS
  Parts = {"mesh", "long_mesh", "runtime", "log_streams", "config", "fake", "cli", "placement", "admission", "record", "gateway_metrics", "node_metrics", "gpu_metrics", "monitor", "long_monitor", "tools", "node_tools", "two_tools"}
  p1 = p1
  p2 = p2
  g1 = g1
  g2 = g2
  Processes = {p1, p2}
  Regions = {0, 1}
  Octet = 2
  PoolOctets = 2
  RegionEnd = 4
  SubnetEnd = 4
  Endpoints = {"e1", "e2"}
  MaxIds = 2
  ClusterNodes = {"n1"}
  Unknown = "n0"
  WorkloadIds = {"w1"}
  Reuse = FALSE
  MaxRequests = 3
  MaxPings = 1
INVARIANTS ControlTypeOK AddressesDistinct PeersFollowEvents ContainersAsAsked AnswersMatch ReportsAreTrue
PROPERTIES RuntimesKeepContract PlacementRight WaitsEnd
CHECK_DEADLOCK FALSE
