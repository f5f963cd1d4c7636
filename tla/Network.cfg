SPECIFICATION NetworkSpec
CONSTANTS
    Parts = {"gossip", "tunnels", "nat", "node", "link", "health", "wire", "answers", "stopped_answers"}
    a = a
    b = b
    c = c
    d = d
    ann = ann
    qry = qry
    Nodes = {a, b, c, d}
    Announces = {ann}
    Queries = {qry}
    Origin <- FromAB
    Links <- Ring
    fanout = 2
    max_ttl_hops = 1
    max_seen_cache = 3
    MaxQueue = 3
    MaxChurn = 0
    Jobs = {"j1", "j2"}
    Providers = {"p1", "p2"}
    ProviderOf <- EachItsProvider
    Recreate = FALSE
    MaxNext = 3
    MaxBytes = 1
    Servers <- TwoServers
    Networks = {"n1", "n2"}
    Preserves <- FirstPreserves
    Buffer = 1
    MaxSent = 3
    max_silence = 2
    MaxPings = 2
    MaxMessages = 1
    MaxTime = 3
    MaxDiscoveries = 2
INVARIANTS
    TunnelsHoldAddresses
    LinksTellTruth
PROPERTIES
    NothingStale
    EverythingSettles
CHECK_DEADLOCK FALSE
