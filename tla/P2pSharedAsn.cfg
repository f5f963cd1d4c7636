SPECIFICATION P2pSpec
CONSTANTS
    Parts = {"shared_pool"}
    p1 = p1
    p2 = p2
    p3 = p3
    p4 = p4
    ip1 = ip1
    ip2 = ip2
    ip3 = ip3
    priv = priv
    net1 = net1
    net2 = net2
    as1 = as1
    Peers = {p1, p2, p3, p4}
    Ips = {ip1, ip2, ip3, priv}
    PrivateIps = {priv}
    Subnets = {net1, net2}
    SubnetOf <- TwoSubnets
    SubnetLimit <- TwoAndOne
    Asns = {as1}
    MaxPerAsn = 1
    MaxConnections = 3
    Attempts <- Unshared
    Nodes = {"a", "b", "c"}
    Announces = {"ann"}
    Queries = {"qry"}
    Origin <- AnnAQryB
    Links <- Everyone
    fanout = 1
    max_ttl_hops = 1
    max_seen_cache = 1
    MaxQueue = 2
    MaxChurn = 2
    Ids = {m1, m2, m3}
    RespondedIds = {m1}
INVARIANT SharedAsnLimitHolds
CHECK_DEADLOCK FALSE
