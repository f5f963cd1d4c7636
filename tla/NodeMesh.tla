------------------------------ MODULE NodeMesh ------------------------------
(***************************************************************************)
(* The WireGuard mesh of the nodes: IpAllocator and WireGuardMesh of       *)
(* crates/claw-network, one per process, MeshManager of                    *)
(* crates/clawnode/src/mesh.rs on top of it, and the mesh.peer events with *)
(* which the gateway tells a node of the others (client.rs).  An address   *)
(* is its last two octets; a key and an endpoint are not told apart.       *)
(***************************************************************************)
EXTENDS Naturals, FiniteSets

CONSTANTS Processes,    \* running nodes, each with a mesh of its own
          Regions,      \* the regions, numbered as their pools are
          Octet,        \* 256
          PoolOctets,   \* 16: a region's pool is a /20
          RegionEnd,    \* 4094: where allocate_node_ip gives up
          SubnetEnd,    \* 255: where allocate_workload_subnet gives up
          Endpoints,    \* where a peer can be reached
          MaxIds        \* bound on the node ids a model makes

ASSUME PoolsAssumption ==
    /\ Regions \subseteq Nat /\ Octet \in Nat \ {0} /\ PoolOctets \in Nat \ {0}
    /\ RegionEnd \in Nat /\ SubnetEnd \in Nat /\ MaxIds \in Nat
    /\ RegionEnd <= Octet * PoolOctets

VARIABLES region_counters,   \* process -> region -> next offset
          workload_counter,  \* process -> next subnet
          nodes,             \* process -> the topology: set of MeshNode
          managers,          \* process -> the managers: node_id -> peers by node_id
          ids,               \* how many node ids there are
          told               \* history: manager -> the events' last word on each peer

vars == <<region_counters, workload_counter, nodes, managers, ids, told>>

NodeIds == 1 .. MaxIds

Address == Nat \X Nat
MeshNode == [node_id : NodeIds, mesh_ip : Address, workload_subnet : Nat, region : Regions]
PeerInfo == [node_id : NodeIds, mesh_ip : Address, endpoint : Endpoints]

TypeOK == /\ region_counters \in [Processes -> [Regions -> Nat]]
          /\ workload_counter \in [Processes -> Nat]
          /\ nodes \in [Processes -> SUBSET MeshNode]
          /\ ids \in 0 .. MaxIds
          /\ \A p \in Processes : \A m \in DOMAIN managers[p] :
                \A k \in DOMAIN managers[p][m] : managers[p][m][k] \in PeerInfo

Put(f, k, v) == [x \in DOMAIN f \cup {k} |-> IF x = k THEN v ELSE f[x]]
Keep(f, S) == [x \in DOMAIN f \cap S |-> f[x]]

Init == /\ region_counters = [p \in Processes |-> [r \in Regions |-> 1]]
        /\ workload_counter = [p \in Processes |-> 0]
        /\ nodes = [p \in Processes |-> {}]
        /\ managers = [p \in Processes |-> <<>>]
        /\ ids = 0 /\ told = <<>>

-----------------------------------------------------------------------------
(* IpAllocator and WireGuardMesh *)

\* The offset's high part is added to the pool's third octet.
node_ip(region, offset) == <<PoolOctets * region + offset \div Octet, offset % Octet>>

region_exhausted(p, region) == region_counters[p][region] >= RegionEnd

\* Variant: the offset does not carry into the third octet.
advance_within_octet(c) == IF c % Octet = Octet - 1 THEN c ELSE c + 1

advance(c) == c + 1

allocate_node_ip(p, region) ==
    region_counters' = [region_counters EXCEPT ![p][region] = advance(@)]

subnets_exhausted(p) == workload_counter[p] >= SubnetEnd

allocate_workload_subnet(p) == workload_counter' = [workload_counter EXCEPT ![p] = @ + 1]

add_node(p, node) ==
    /\ \A other \in nodes[p] : other.node_id # node.node_id
    /\ nodes' = [nodes EXCEPT ![p] = @ \cup {node}]

remove_node(p, id) == nodes' = [nodes EXCEPT ![p] = {x \in @ : x.node_id # id}]

-----------------------------------------------------------------------------
(* MeshManager *)

\* init: an address, a subnet, the topology.  When the subnets are exhausted the
\* address that it has taken stays taken, and with an invalid key the subnet too.
MeshManager_init(p, region) ==
    LET id == ids + 1
    IN  /\ ids < MaxIds /\ ids' = id
        /\ \/ /\ region_exhausted(p, region)
              /\ UNCHANGED <<region_counters, workload_counter, nodes, managers, told>>
           \/ /\ ~region_exhausted(p, region) /\ subnets_exhausted(p)
              /\ allocate_node_ip(p, region)
              /\ UNCHANGED <<workload_counter, nodes, managers, told>>
           \/ /\ ~region_exhausted(p, region) /\ ~subnets_exhausted(p)
              /\ allocate_node_ip(p, region)
              /\ allocate_workload_subnet(p)
              /\ UNCHANGED <<nodes, managers, told>>
           \/ /\ ~region_exhausted(p, region) /\ ~subnets_exhausted(p)
              /\ allocate_node_ip(p, region)
              /\ allocate_workload_subnet(p)
              /\ add_node(p, [node_id |-> id, mesh_ip |-> node_ip(region, region_counters[p][region]),
                              workload_subnet |-> workload_counter[p], region |-> region])
              /\ managers' = [managers EXCEPT ![p] = Put(@, id, <<>>)]
              /\ told' = Put(told, id, <<>>)

set_peers(p, m, peers) == managers' = [managers EXCEPT ![p][m] = peers]

\* mesh.peer.join: an announcement replaces what was known of the peer.
add_remote_peer(p, m, peer) ==
    /\ set_peers(p, m, Put(managers[p][m], peer.node_id, peer))
    /\ told' = [told EXCEPT ![m] = Put(@, peer.node_id, peer)]
    /\ UNCHANGED <<region_counters, workload_counter, nodes, ids>>

\* mesh.peer.leave; a peer that is not there is an error, which the client ignores.
remove_remote_peer(p, m, id) ==
    /\ set_peers(p, m, Keep(managers[p][m], NodeIds \ {id}))
    /\ told' = [told EXCEPT ![m] = Keep(@, NodeIds \ {id})]
    /\ UNCHANGED <<region_counters, workload_counter, nodes, ids>>

\* Variant: peers that are gone stay.
synced_add_only(m, peers, known) ==
    LET listed == {k \in DOMAIN known : k # m}
    IN  [k \in DOMAIN peers \cup listed |-> IF k \in DOMAIN peers THEN peers[k] ELSE known[k]]

\* Peers that are not listed go, new ones come, and the others stay as they are.
synced(m, peers, known) ==
    LET listed == {k \in DOMAIN known : k # m}
    IN  [k \in listed |-> IF k \in DOMAIN peers THEN peers[k] ELSE known[k]]

sync_peers(p, m, known) ==
    /\ set_peers(p, m, synced(m, managers[p][m], known))
    /\ told' = [told EXCEPT ![m] = Keep(known, NodeIds \ {m})]
    /\ UNCHANGED <<region_counters, workload_counter, nodes, ids>>

\* shutdown: the addresses are not given back.
shutdown(p, m) ==
    /\ remove_node(p, m)
    /\ set_peers(p, m, <<>>)
    /\ told' = [told EXCEPT ![m] = <<>>]
    /\ UNCHANGED <<region_counters, workload_counter, ids>>

\* The process ends and starts with a new mesh and a new node id.
restart(p) ==
    /\ managers[p] # <<>>
    /\ region_counters' = [region_counters EXCEPT ![p] = [r \in Regions |-> 1]]
    /\ workload_counter' = [workload_counter EXCEPT ![p] = 0]
    /\ nodes' = [nodes EXCEPT ![p] = {}]
    /\ managers' = [managers EXCEPT ![p] = <<>>]
    /\ UNCHANGED <<ids, told>>

-----------------------------------------------------------------------------
\* The gateway announces the nodes that the processes have registered.
announced == {[node_id |-> x.node_id, mesh_ip |-> x.mesh_ip, endpoint |-> e] :
                x \in UNION {nodes[p] : p \in Processes}, e \in Endpoints}

listing(a, b) == [k \in {a.node_id, b.node_id} |-> IF k = a.node_id THEN a ELSE b]

listings == {<<>>} \cup UNION {{listing(a, b) : b \in announced} : a \in announced}

Next == \E p \in Processes :
           \/ \E r \in Regions : MeshManager_init(p, r)
           \/ \E m \in DOMAIN managers[p] :
                 \/ \E peer \in announced : add_remote_peer(p, m, peer)
                 \/ \E id \in NodeIds : remove_remote_peer(p, m, id)
                 \/ \E known \in listings : sync_peers(p, m, known)
                 \/ shutdown(p, m)
           \/ restart(p)

Spec == Init /\ [][Next]_vars

-----------------------------------------------------------------------------
\* One mesh gives no address and no subnet twice, and keeps every address inside
\* its region's pool, so that two regions never meet: also after exhaustion, and
\* after inits that failed half way.
AddressesDistinct ==
    \A p \in Processes : \A x, y \in nodes[p] :
       /\ x.mesh_ip[1] \in PoolOctets * x.region .. PoolOctets * (x.region + 1) - 1
       /\ x.node_id # y.node_id => /\ x.mesh_ip # y.mesh_ip
                                   /\ x.workload_subnet # y.workload_subnet

\* A manager's peers are the ones that events and listings last told it of: none that
\* has left, none missing.
PeersFollowEvents ==
    \A p \in Processes : \A m \in DOMAIN managers[p] :
       DOMAIN managers[p][m] = DOMAIN told[m]

\* sync_peers is to "synchronize local peers with a list of known nodes from the
\* gateway" (mesh.rs): what it knows of a peer is what it was last told.
PeersAreCurrent ==
    \A p \in Processes : \A m \in DOMAIN managers[p] :
       \A k \in DOMAIN managers[p][m] \cap DOMAIN told[m] : managers[p][m][k] = told[m][k]

\* No two nodes of the mesh have the same address: "allocates a mesh IP" (mesh.rs).
NodesDistinct ==
    \A x, y \in UNION {nodes[p] : p \in Processes} : x.node_id # y.node_id => x.mesh_ip # y.mesh_ip
=============================================================================
