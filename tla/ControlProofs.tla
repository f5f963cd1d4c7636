---------------------------- MODULE ControlProofs ---------------------------
(***************************************************************************)
(* The mesh gives no address twice and its managers know the peers they    *)
(* were told of, for every number of processes, regions and node ids and   *)
(* every size of the pools.  A command of the command-line tool that opens *)
(* its own connection is told what became of its own request, for every    *)
(* number of commands, nodes and workloads.  The runtime of the tests      *)
(* keeps the contract of a runtime, for any number of threads.             *)
(***************************************************************************)
EXTENDS NodeMesh, CliSession, FakeRuntime, SequenceTheorems, Integers, TLAPS

\* The offset that node_ip turned into an address of a region.
offset(region, ip) == Octet * (ip[1] - PoolOctets * region) + ip[2]

InPool(region, ip) == ip[1] \in PoolOctets * region .. PoolOctets * (region + 1) - 1

(***************************************************************************)
(* The strengthening: what a mesh has given out lies below its counters,   *)
(* and a node id below the number of ids.                                  *)
(***************************************************************************)
AllocatorTypeOK ==
    /\ region_counters \in [Processes -> [Regions -> Nat]]
    /\ workload_counter \in [Processes -> Nat]
    /\ nodes \in [Processes -> SUBSET MeshNode]
    /\ ids \in 0 .. MaxIds

Given ==
    \A p \in Processes : \A x \in nodes[p] :
        /\ x.node_id <= ids
        /\ InPool(x.region, x.mesh_ip)
        /\ offset(x.region, x.mesh_ip) < region_counters[p][x.region]
        /\ x.workload_subnet < workload_counter[p]

Inv == AllocatorTypeOK /\ Given /\ AddressesDistinct

-----------------------------------------------------------------------------
\* Pools of different regions have no third octet in common.
LEMMA PoolsDisjoint ==
    ASSUME NEW r \in Regions, NEW s \in Regions, r < s
    PROVE  PoolOctets * (r + 1) <= PoolOctets * s
<1>1. r \in Nat /\ s \in Nat /\ r + 1 <= s /\ PoolOctets \in Nat
  BY PoolsAssumption
<1> QED BY <1>1

\* An offset below the end of the region lies in the region's pool and can be read
\* back from the address.
LEMMA NodeIp ==
    ASSUME NEW r \in Regions, NEW o \in Nat, o < RegionEnd
    PROVE  /\ node_ip(r, o) \in Address
           /\ InPool(r, node_ip(r, o))
           /\ offset(r, node_ip(r, o)) = o
<1> DEFINE q == o \div Octet
           m == o % Octet
<1>1. /\ r \in Nat /\ Octet \in Nat /\ Octet > 0 /\ PoolOctets \in Nat
      /\ o < Octet * PoolOctets
  BY PoolsAssumption
<1>2. q \in Nat /\ m \in Nat /\ o = Octet * q + m
  BY <1>1
<1>3. q < PoolOctets
  BY <1>1, <1>2
<1>4. node_ip(r, o) = <<PoolOctets * r + q, m>>
  BY DEF node_ip
<1> HIDE DEF q, m
<1>5. PoolOctets * (r + 1) = PoolOctets * r + PoolOctets /\ PoolOctets * r \in Nat
  BY <1>1
<1> QED BY <1>1, <1>2, <1>3, <1>4, <1>5 DEF Address, InPool, offset

\* Two addresses in pools that were given out at different offsets differ.
LEMMA AddressesApart ==
    ASSUME NEW r \in Regions, NEW s \in Regions, NEW a \in Address, NEW b \in Address,
           InPool(r, a), InPool(s, b), r = s => offset(r, a) # offset(s, b)
    PROVE  a # b
<1>1. CASE r = s
  BY <1>1
<1>2. CASE r # s
  <2>1. r \in Nat /\ s \in Nat /\ (r < s \/ s < r) /\ a[1] \in Nat /\ b[1] \in Nat
    BY <1>2, PoolsAssumption DEF Address
  <2>2. /\ PoolOctets * r \in Nat /\ PoolOctets * s \in Nat
        /\ PoolOctets * (r + 1) \in Nat /\ PoolOctets * (s + 1) \in Nat
    BY <2>1, PoolsAssumption
  <2>3. a[1] # b[1]
    BY <2>1, <2>2, PoolsDisjoint DEF InPool
  <2> QED BY <2>3
<1> QED BY <1>1, <1>2

-----------------------------------------------------------------------------
\* New processes have given out no address.
LEMMA InitInv == Init => Inv
BY PoolsAssumption DEF Init, Inv, AllocatorTypeOK, Given, AddressesDistinct

\* A step that takes nothing and at most forgets nodes.
LEMMA NodesForgotten ==
    ASSUME Inv, NEW p \in Processes, NEW kept \in SUBSET nodes[p],
           nodes' = [nodes EXCEPT ![p] = kept],
           UNCHANGED <<region_counters, workload_counter, ids>>
    PROVE  Inv'
<1>1. \A q \in Processes : nodes'[q] \subseteq nodes[q]
  BY DEF Inv, AllocatorTypeOK
<1>2. AllocatorTypeOK'
  BY DEF Inv, AllocatorTypeOK
<1>3. Given'
  BY <1>1 DEF Inv, Given
<1>4. AddressesDistinct'
  BY <1>1 DEF Inv, AddressesDistinct
<1> QED BY <1>2, <1>3, <1>4 DEF Inv

\* What was given stays below the counters, which only grow.
Below(q, x) == /\ x.node_id <= ids
               /\ InPool(x.region, x.mesh_ip)
               /\ offset(x.region, x.mesh_ip) < region_counters[q][x.region]
               /\ x.workload_subnet < workload_counter[q]

\* An address that is below a counter stays below it when the counter advances.
LEMMA StillBelow ==
    ASSUME Inv, AllocatorTypeOK', ids <= ids', NEW q \in Processes, NEW x \in nodes[q],
           region_counters[q][x.region] <= region_counters'[q][x.region],
           workload_counter[q] <= workload_counter'[q]
    PROVE  Below(q, x)'
<1>1. /\ x.node_id \in Nat /\ x.workload_subnet \in Nat
      /\ x.region \in Regions /\ x.mesh_ip \in Address /\ ids \in Nat /\ ids' \in Nat
  BY PoolsAssumption DEF Inv, AllocatorTypeOK, MeshNode, NodeIds
<1>2. offset(x.region, x.mesh_ip) \in Int
  <2> DEFINE a == x.mesh_ip
             b == PoolOctets * x.region
  <2>1. a[1] \in Int /\ a[2] \in Int
    BY <1>1 DEF Address
  <2>2. x.region \in Nat /\ PoolOctets \in Nat /\ Octet \in Nat
    BY <1>1, PoolsAssumption, Zenon
  <2>3. b \in Int
    BY <2>2
  <2> HIDE DEF a, b
  <2>4. Octet * (a[1] - b) \in Int
    BY <2>1, <2>2, <2>3
  <2> QED BY <2>1, <2>4 DEF offset, a, b
<1>3. Below(q, x)
  BY DEF Inv, Given, Below
<1>4. /\ region_counters[q][x.region] \in Nat /\ region_counters'[q][x.region] \in Nat
      /\ workload_counter[q] \in Nat /\ workload_counter'[q] \in Nat
  BY <1>1 DEF Inv, AllocatorTypeOK
<1>5. offset(x.region, x.mesh_ip) < region_counters'[q][x.region]
  BY <1>2, <1>3, <1>4 DEF Below
<1> QED BY <1>1, <1>3, <1>4, <1>5 DEF Below

\* init: the address and the subnet it takes are above all that were given.
LEMMA InitStep ==
    ASSUME Inv, NEW p \in Processes, NEW r \in Regions, MeshManager_init(p, r)
    PROVE  Inv'
<1> DEFINE o == region_counters[p][r]
           node == [node_id |-> ids + 1, mesh_ip |-> node_ip(r, o),
                    workload_subnet |-> workload_counter[p], region |-> r]
<1>1. /\ ids \in Nat /\ ids + 1 \in NodeIds /\ ids' = ids + 1
      /\ ids' \in 0 .. MaxIds /\ ids <= ids'
  BY PoolsAssumption DEF MeshManager_init, Inv, AllocatorTypeOK, NodeIds
<1>2. o \in Nat /\ workload_counter[p] \in Nat
  BY DEF Inv, AllocatorTypeOK
<1>3. CASE UNCHANGED <<region_counters, workload_counter, nodes>>
  <2>1. AllocatorTypeOK'
    BY <1>1, <1>3 DEF Inv, AllocatorTypeOK
  <2>2. ASSUME NEW q \in Processes, NEW x \in nodes[q] PROVE Below(q, x)'
    <3>1. x.region \in Regions
      BY DEF Inv, AllocatorTypeOK, MeshNode
    <3>2. /\ region_counters[q][x.region] <= region_counters'[q][x.region]
          /\ workload_counter[q] <= workload_counter'[q]
      BY <1>3, <3>1 DEF Inv, AllocatorTypeOK
    <3> QED BY <1>1, <2>1, <3>2, StillBelow
  <2>3. Given'
    BY <1>3, <2>2 DEF Given, Below
  <2> QED BY <1>3, <2>1, <2>3 DEF Inv, AddressesDistinct
<1>4. ASSUME allocate_node_ip(p, r)
      PROVE  /\ region_counters' \in [Processes -> [Regions -> Nat]]
             /\ region_counters'[p][r] = o + 1
             /\ \A q \in Processes, s \in Regions : region_counters[q][s] <= region_counters'[q][s]
  BY <1>2, <1>4 DEF Inv, AllocatorTypeOK, allocate_node_ip, advance
<1>5. ASSUME allocate_workload_subnet(p)
       PROVE  /\ workload_counter' \in [Processes -> Nat]
              /\ workload_counter'[p] = workload_counter[p] + 1
              /\ \A q \in Processes : workload_counter[q] <= workload_counter'[q]
  BY <1>2, <1>5 DEF allocate_workload_subnet, Inv, AllocatorTypeOK
<1>6. CASE /\ allocate_node_ip(p, r) /\ UNCHANGED nodes
           /\ UNCHANGED workload_counter \/ allocate_workload_subnet(p)
  <2>1. AllocatorTypeOK'
    BY <1>1, <1>4, <1>5, <1>6 DEF Inv, AllocatorTypeOK
  <2>2. ASSUME NEW q \in Processes, NEW x \in nodes[q] PROVE Below(q, x)'
    <3>1. x.region \in Regions
      BY DEF Inv, AllocatorTypeOK, MeshNode
    <3>2. /\ region_counters[q][x.region] <= region_counters'[q][x.region]
          /\ workload_counter[q] <= workload_counter'[q]
      BY <1>4, <1>5, <1>6, <3>1 DEF Inv, AllocatorTypeOK
    <3> QED BY <1>1, <2>1, <3>2, StillBelow
  <2>3. Given'
    BY <1>6, <2>2 DEF Given, Below
  <2> QED BY <1>6, <2>1, <2>3 DEF Inv, AddressesDistinct
<1>7. CASE /\ ~region_exhausted(p, r) /\ allocate_node_ip(p, r) /\ allocate_workload_subnet(p)
           /\ add_node(p, node)
  <2>1. /\ node_ip(r, o) \in Address /\ InPool(r, node_ip(r, o))
        /\ offset(r, node_ip(r, o)) = o
    <3>1. o < RegionEnd
      BY <1>2, <1>7, PoolsAssumption DEF region_exhausted
    <3> HIDE DEF o, node
    <3> QED BY <1>2, <3>1, NodeIp
  <2>2. node \in MeshNode
    BY <1>1, <1>2, <2>1 DEF MeshNode
  <2>3. /\ nodes' \in [Processes -> SUBSET MeshNode]
        /\ nodes'[p] = nodes[p] \cup {node}
        /\ \A q \in Processes : q # p => nodes'[q] = nodes[q]
    BY <1>7, <2>2 DEF add_node, Inv, AllocatorTypeOK
  <2>4. /\ workload_counter' \in [Processes -> Nat]
        /\ workload_counter'[p] = workload_counter[p] + 1
        /\ \A q \in Processes : workload_counter[q] <= workload_counter'[q]
    BY <1>5, <1>7
  <2>5. AllocatorTypeOK'
    BY <1>1, <1>4, <1>7, <2>3, <2>4 DEF AllocatorTypeOK
  <2>6. ASSUME NEW q \in Processes, NEW x \in nodes[q] PROVE Below(q, x)'
    <3>1. x.region \in Regions
      BY DEF Inv, AllocatorTypeOK, MeshNode
    <3>2. /\ region_counters[q][x.region] <= region_counters'[q][x.region]
          /\ workload_counter[q] <= workload_counter'[q]
      BY <1>4, <1>7, <2>4, <3>1
    <3> QED BY <1>1, <2>5, <3>2, StillBelow
  <2>7. ASSUME NEW x, x = node PROVE Below(p, x)'
    <3>1. o < region_counters'[p][r] /\ workload_counter[p] < workload_counter'[p]
      BY <1>2, <1>4, <1>7, <2>4
    <3>2. /\ x.node_id = ids + 1 /\ x.region = r /\ x.mesh_ip = node_ip(r, o)
          /\ x.workload_subnet = workload_counter[p]
      BY <2>7
    <3> QED BY <1>1, <2>1, <3>1, <3>2 DEF Below
  <2>8. Given'
    <3>1. \A q \in Processes : \A x \in nodes'[q] : Below(q, x)'
      BY <2>3, <2>6, <2>7
    <3> QED BY <3>1 DEF Given, Below
  <2>9. ASSUME NEW x \in nodes[p]
        PROVE  x.mesh_ip # node.mesh_ip /\ x.workload_subnet # node.workload_subnet
    <3>1. /\ x.region \in Regions /\ x.mesh_ip \in Address /\ x.workload_subnet \in Nat
      BY DEF Inv, AllocatorTypeOK, MeshNode
    <3>2. Below(p, x)
      BY DEF Inv, Given, Below
    <3>3. x.region = r => offset(x.region, x.mesh_ip) # o
      BY <1>2, <3>2 DEF Below
    <3>4. x.mesh_ip # node_ip(r, o)
      BY <2>1, <3>1, <3>2, <3>3, AddressesApart DEF Below
    <3>5. x.workload_subnet # workload_counter[p]
      BY <1>2, <3>1, <3>2 DEF Below
    <3> QED BY <3>4, <3>5
  <2>10. AddressesDistinct'
    <3> SUFFICES ASSUME NEW q \in Processes, NEW x \in nodes'[q], NEW y \in nodes'[q]
                 PROVE  /\ InPool(x.region, x.mesh_ip)
                        /\ x.node_id # y.node_id => /\ x.mesh_ip # y.mesh_ip
                                                    /\ x.workload_subnet # y.workload_subnet
      BY DEF AddressesDistinct, InPool
    <3>1. InPool(x.region, x.mesh_ip)
      BY <2>8 DEF Given
    <3>2. CASE x \in nodes[q] /\ y \in nodes[q]
      BY <3>1, <3>2 DEF Inv, AddressesDistinct
    <3>3. CASE q = p /\ x = node
      BY <2>3, <2>9, <3>1, <3>3
    <3>4. CASE q = p /\ y = node
      BY <2>3, <2>9, <3>1, <3>4
    <3> QED BY <2>3, <3>2, <3>3, <3>4
  <2> QED BY <2>5, <2>8, <2>10 DEF Inv
<1> QED BY <1>3, <1>6, <1>7 DEF MeshManager_init

\* restart: the counters begin again, and nothing that they gave is left.
LEMMA RestartStep ==
    ASSUME Inv, NEW p \in Processes, restart(p)
    PROVE  Inv'
<1>1. /\ AllocatorTypeOK' /\ nodes'[p] = {} /\ ids' = ids
      /\ \A q \in Processes : q # p => /\ nodes'[q] = nodes[q]
                                       /\ region_counters'[q] = region_counters[q]
                                       /\ workload_counter'[q] = workload_counter[q]
  BY DEF Inv, AllocatorTypeOK, restart
<1>2. Given'
  BY <1>1 DEF Inv, Given
<1>3. AddressesDistinct'
  BY <1>1 DEF Inv, AddressesDistinct
<1> QED BY <1>1, <1>2, <1>3 DEF Inv

\* Every step keeps the addresses given below the counters and apart.
LEMMA NextInv == Inv /\ [Next]_vars => Inv'
<1> SUFFICES ASSUME Inv, [Next]_vars PROVE Inv'
  OBVIOUS
<1>1. CASE UNCHANGED vars
  BY <1>1 DEF vars, Inv, AllocatorTypeOK, Given, AddressesDistinct
<1>2. ASSUME NEW p \in Processes, NEW m \in DOMAIN managers[p],
             UNCHANGED <<region_counters, workload_counter, nodes, ids>>
      PROVE  Inv'
  BY <1>2 DEF Inv, AllocatorTypeOK, Given, AddressesDistinct
<1>3. ASSUME NEW p \in Processes, NEW m \in DOMAIN managers[p], shutdown(p, m)
      PROVE  Inv'
  <2>1. {x \in nodes[p] : x.node_id # m} \in SUBSET nodes[p]
    OBVIOUS
  <2>2. /\ nodes' = [nodes EXCEPT ![p] = {x \in nodes[p] : x.node_id # m}]
        /\ UNCHANGED <<region_counters, workload_counter, ids>>
    BY <1>3 DEF shutdown, remove_node
  <2> QED BY <2>1, <2>2, NodesForgotten
<1> QED
  BY <1>1, <1>2, <1>3, InitStep, RestartStep, Zenon
     DEF Next, add_remote_peer, remove_remote_peer, sync_peers

\* IpAllocator and WireGuardMesh (claw-network): whatever the managers do, and
\* whichever inits fail half way, a mesh keeps every address in its region's pool and
\* gives no address and no workload subnet to two nodes.
THEOREM MeshAddresses == Spec => []AddressesDistinct
<1>1. Inv => AddressesDistinct
  BY DEF Inv
<1> QED BY <1>1, InitInv, NextInv, PTL DEF Spec

-----------------------------------------------------------------------------
(***************************************************************************)
(* For the peers: a node id names the manager of one process only, and     *)
(* every manager has a place in what the events told.                      *)
(***************************************************************************)
IsFunction(f) == f = [x \in DOMAIN f |-> f[x]]

ManagersTypeOK ==
    /\ managers = [p \in Processes |-> managers[p]]
    /\ IsFunction(told)
    /\ \A p \in Processes : IsFunction(managers[p]) /\ DOMAIN managers[p] \subseteq DOMAIN told

ManagersApart ==
    /\ DOMAIN told \subseteq 1 .. ids
    /\ \A p, q \in Processes : p # q => DOMAIN managers[p] \cap DOMAIN managers[q] = {}

PeersInv == Inv /\ ManagersTypeOK /\ ManagersApart /\ PeersFollowEvents

\* The empty sequence is the empty function.
LEMMA EmptyFunction == DOMAIN <<>> = {} /\ IsFunction(<<>>)
BY DEF IsFunction

\* New processes have no manager and have been told of nobody.
LEMMA PeersInit == Init => PeersInv
BY InitInv, EmptyFunction DEF Init, PeersInv, ManagersTypeOK, ManagersApart, PeersFollowEvents

\* A manager whose peers and whose place in told change together.
LEMMA TogetherStep ==
    ASSUME PeersInv, NEW p \in Processes, NEW m \in DOMAIN managers[p], NEW peers, NEW t,
           set_peers(p, m, peers), told' = [told EXCEPT ![m] = t], ids' = ids,
           DOMAIN peers = DOMAIN t, Inv'
    PROVE  PeersInv'
<1>1. /\ m \in DOMAIN told
      /\ \A q \in Processes : q # p => m \notin DOMAIN managers[q]
  BY DEF PeersInv, ManagersTypeOK, ManagersApart
<1>2. /\ managers' = [q \in Processes |-> managers'[q]]
      /\ \A q \in Processes : q # p => managers'[q] = managers[q]
      /\ managers'[p] = [managers[p] EXCEPT ![m] = peers]
  BY Zenon DEF PeersInv, ManagersTypeOK, set_peers
<1>3. /\ DOMAIN managers'[p] = DOMAIN managers[p] /\ managers'[p][m] = peers
      /\ \A k \in DOMAIN managers[p] : k # m => managers'[p][k] = managers[p][k]
      /\ IsFunction(managers'[p])
  BY <1>2, Zenon DEF PeersInv, ManagersTypeOK, IsFunction
<1>4. /\ DOMAIN told' = DOMAIN told /\ told'[m] = t
      /\ \A k \in DOMAIN told : k # m => told'[k] = told[k]
      /\ IsFunction(told')
  BY <1>1, Zenon DEF PeersInv, ManagersTypeOK, IsFunction
<1>5. \A q \in Processes : DOMAIN managers'[q] = DOMAIN managers[q] /\ IsFunction(managers'[q])
  BY <1>2, <1>3, Zenon DEF PeersInv, ManagersTypeOK
<1>6. ManagersTypeOK'
  BY <1>2, <1>4, <1>5 DEF PeersInv, ManagersTypeOK
<1>7. ManagersApart'
  BY <1>4, <1>5 DEF PeersInv, ManagersApart
<1>8. PeersFollowEvents'
  BY <1>1, <1>2, <1>3, <1>4 DEF PeersInv, PeersFollowEvents, ManagersTypeOK
<1> QED BY <1>6, <1>7, <1>8 DEF PeersInv

\* init: the new manager's id is above all others, and it starts without peers.
LEMMA PeersInitStep ==
    ASSUME PeersInv, NEW p \in Processes, NEW r \in Regions, MeshManager_init(p, r), Inv'
    PROVE  PeersInv'
<1>1. ids \in Nat /\ ids' = ids + 1 /\ 1 .. ids \subseteq 1 .. ids' /\ ids' \in 1 .. ids'
      /\ ids' \notin 1 .. ids
  BY PoolsAssumption DEF MeshManager_init, PeersInv, Inv, AllocatorTypeOK
<1>2. CASE UNCHANGED <<managers, told>>
  BY <1>1, <1>2 DEF PeersInv, ManagersTypeOK, ManagersApart, PeersFollowEvents
<1>3. CASE /\ managers' = [managers EXCEPT ![p] = Put(@, ids + 1, <<>>)]
           /\ told' = Put(told, ids + 1, <<>>)
  <2>1. /\ managers' = [q \in Processes |-> managers'[q]]
        /\ \A q \in Processes : q # p => managers'[q] = managers[q]
        /\ managers'[p] = Put(managers[p], ids + 1, <<>>)
    BY <1>3 DEF PeersInv, ManagersTypeOK
  <2>2. /\ IsFunction(managers'[p]) /\ DOMAIN managers'[p] = DOMAIN managers[p] \cup {ids + 1}
        /\ managers'[p][ids + 1] = <<>>
        /\ \A x \in DOMAIN managers[p] : x # ids + 1 => managers'[p][x] = managers[p][x]
    BY <2>1 DEF Put, IsFunction
  <2>3. /\ IsFunction(told') /\ DOMAIN told' = DOMAIN told \cup {ids + 1}
        /\ told'[ids + 1] = <<>>
        /\ \A x \in DOMAIN told : x # ids + 1 => told'[x] = told[x]
    BY <1>3 DEF Put, IsFunction
  <2>4. \A q \in Processes : ids + 1 \notin DOMAIN managers[q]
    BY <1>1 DEF PeersInv, ManagersTypeOK, ManagersApart
  <2>5. ManagersTypeOK'
    BY <2>1, <2>2, <2>3 DEF PeersInv, ManagersTypeOK
  <2>6. ManagersApart'
    BY <1>1, <2>1, <2>2, <2>4, <2>3 DEF PeersInv, ManagersApart
  <2>7. PeersFollowEvents'
    <3> SUFFICES ASSUME NEW q \in Processes, NEW m \in DOMAIN managers'[q]
                 PROVE  DOMAIN managers'[q][m] = DOMAIN told'[m]
      BY DEF PeersFollowEvents
    <3>1. CASE m = ids + 1
      BY <2>1, <2>2, <2>4, <2>3, <3>1
    <3>2. CASE m # ids + 1
      <4>1. m \in DOMAIN managers[q] /\ managers'[q][m] = managers[q][m]
        BY <2>1, <2>2, <3>2
      <4>2. told'[m] = told[m]
        BY <2>3, <3>2, <4>1 DEF PeersInv, ManagersTypeOK
      <4> QED BY <4>1, <4>2 DEF PeersInv, PeersFollowEvents
    <3> QED BY <3>1, <3>2
  <2> QED BY <2>5, <2>6, <2>7 DEF PeersInv
<1> QED BY <1>2, <1>3 DEF MeshManager_init

\* The gateway's listings are of node ids.
LEMMA Listed ==
    ASSUME Inv, NEW known \in listings
    PROVE  DOMAIN known \subseteq NodeIds
<1>1. \A a \in announced : a.node_id \in NodeIds
  <2>1. \A p \in Processes : \A x \in nodes[p] : x.node_id \in NodeIds
    BY DEF Inv, AllocatorTypeOK, MeshNode
  <2> QED BY <2>1 DEF announced
<1>2. CASE known = <<>>
  BY <1>2, EmptyFunction
<1>3. ASSUME NEW a \in announced, NEW b \in announced, known = listing(a, b)
      PROVE  DOMAIN known \subseteq NodeIds
  BY <1>1, <1>3 DEF listing
<1> QED BY <1>2, <1>3 DEF listings

\* Every step keeps what managers know in line with what they were told.
LEMMA PeersNext == PeersInv /\ [Next]_vars => PeersInv'
<1> SUFFICES ASSUME PeersInv, [Next]_vars PROVE PeersInv'
  OBVIOUS
<1>1. Inv'
  BY NextInv DEF PeersInv
<1>2. CASE UNCHANGED vars
  BY <1>1, <1>2 DEF vars, PeersInv, ManagersTypeOK, ManagersApart, PeersFollowEvents
<1>3. ASSUME NEW p \in Processes, NEW m \in DOMAIN managers[p], NEW peer, add_remote_peer(p, m, peer)
      PROVE  PeersInv'
  <2>1. DOMAIN managers[p][m] = DOMAIN told[m] /\ m \in DOMAIN told
    BY DEF PeersInv, PeersFollowEvents, ManagersTypeOK
  <2>2. DOMAIN Put(managers[p][m], peer.node_id, peer) = DOMAIN Put(told[m], peer.node_id, peer)
    BY <2>1 DEF Put
  <2> QED BY <1>1, <1>3, <2>1, <2>2, TogetherStep, Zenon DEF add_remote_peer
<1>4. ASSUME NEW p \in Processes, NEW m \in DOMAIN managers[p], NEW id, remove_remote_peer(p, m, id)
      PROVE  PeersInv'
  <2>1. DOMAIN managers[p][m] = DOMAIN told[m] /\ m \in DOMAIN told
    BY DEF PeersInv, PeersFollowEvents, ManagersTypeOK
  <2>2. DOMAIN Keep(managers[p][m], NodeIds \ {id}) = DOMAIN Keep(told[m], NodeIds \ {id})
    BY <2>1 DEF Keep
  <2> QED BY <1>1, <1>4, <2>1, <2>2, TogetherStep, Zenon DEF remove_remote_peer
<1>5. ASSUME NEW p \in Processes, NEW m \in DOMAIN managers[p], NEW known \in listings,
             sync_peers(p, m, known)
      PROVE  PeersInv'
  <2>1. DOMAIN synced(m, managers[p][m], known) = DOMAIN Keep(known, NodeIds \ {m})
    BY Listed DEF synced, Keep, PeersInv
  <2> QED BY <1>1, <1>5, <2>1, TogetherStep, Zenon DEF sync_peers
<1>6. ASSUME NEW p \in Processes, NEW m \in DOMAIN managers[p], shutdown(p, m)
      PROVE  PeersInv'
  BY <1>1, <1>6, TogetherStep, Zenon DEF shutdown
<1>7. ASSUME NEW p \in Processes, restart(p)
      PROVE  PeersInv'
  <2>1. /\ managers' = [q \in Processes |-> managers'[q]] /\ managers'[p] = <<>>
        /\ \A q \in Processes : q # p => managers'[q] = managers[q]
        /\ told' = told /\ ids' = ids
    BY <1>7 DEF restart, PeersInv, ManagersTypeOK
  <2>2. ManagersTypeOK' /\ ManagersApart'
    BY <2>1, EmptyFunction DEF PeersInv, ManagersTypeOK, ManagersApart
  <2>3. PeersFollowEvents'
    BY <2>1, EmptyFunction DEF PeersInv, PeersFollowEvents
  <2> QED BY <1>1, <2>2, <2>3 DEF PeersInv
<1> QED BY <1>1, <1>2, <1>3, <1>4, <1>5, <1>6, <1>7, PeersInitStep DEF Next

\* MeshManager (mesh.rs): after any mix of joins, leaves, listings, shutdowns and
\* restarts a manager has the peers that it was last told of, no more and no fewer.
THEOREM MeshPeers == Spec => []PeersFollowEvents
<1>1. PeersInv => PeersFollowEvents
  BY DEF PeersInv
<1> QED BY <1>1, PeersInit, PeersNext, PTL DEF Spec

-----------------------------------------------------------------------------
(***************************************************************************)
(* The command-line tool.  A request has no number and the next frame is   *)
(* taken for its answer.  What makes that right is that a connection has   *)
(* one request at a time under way, and is given up when one fails.        *)
(***************************************************************************)
Frames == AnswerTypes \cup {"control"}

\* A request with its number and that of its connection.
Asked == [type : DOMAIN answer_type, on : {"none", Unknown} \cup ClusterNodes \cup WorkloadIds,
          serial : Nat, conn : Nat]

CliTypes == /\ requests \in Seq(Asked) /\ frames \in Seq(Frames)
            /\ waiting \subseteq Asked
            /\ conn \in Nat /\ sent \in Nat
            /\ waiting # {} => link = "open"

\* The requests of this connection not served yet, and the answers on their way.
Unserved(q, c) == {i \in DOMAIN q : q[i].conn = c}
Answers(s) == {i \in DOMAIN s : s[i] # "control"}

\* f says nothing of r that is not true: r was performed if f is its answer.
Answered(f, r, d) == f = "error" \/ (f = answer_type[r.type] /\ r.serial \in d)

\* No request is of a connection to come.
Earlier == \A i \in DOMAIN requests : requests[i].conn <= conn

\* While a connection is open, a request is unserved, or its answer is on its way, or
\* neither; never both, never two.
OneAtATime ==
    link = "open" =>
        /\ \A i, j \in Unserved(requests, conn) : i = j
        /\ \A i, j \in Answers(frames) : i = j
        /\ \A i \in Unserved(requests, conn) : waiting = {requests[i]} /\ Answers(frames) = {}
        /\ \A i \in Answers(frames) : \E r \in waiting : waiting = {r} /\ Answered(frames[i], r, done)

CliInv == CliTypes /\ Earlier /\ OneAtATime /\ AnswersMatch

\* Before the first connection nothing is under way.
LEMMA CliStart == CliInit => CliInv
BY DEF CliInit, CliInv, CliTypes, Earlier, OneAtATime, AnswersMatch, Unserved, Answers

\* One more at the end.
LEMMA OneMore ==
    ASSUME NEW S, NEW s \in Seq(S), NEW x \in S
    PROVE  /\ Append(s, x) \in Seq(S) /\ DOMAIN Append(s, x) = DOMAIN s \cup {Len(s) + 1}
           /\ Len(s) + 1 \notin DOMAIN s
           /\ Append(s, x)[Len(s) + 1] = x /\ \A i \in DOMAIN s : Append(s, x)[i] = s[i]
BY AppendProperties, LenProperties

\* One less at the front.
LEMMA OneLess ==
    ASSUME NEW S, NEW s \in Seq(S), s # <<>>
    PROVE  /\ Tail(s) \in Seq(S) /\ Head(s) \in S /\ Head(s) = s[1] /\ 1 \in DOMAIN s
           /\ \A i \in DOMAIN Tail(s) : i + 1 \in DOMAIN s /\ i + 1 # 1 /\ Tail(s)[i] = s[i + 1]
BY HeadTailProperties, LenProperties

\* What a closed connection leaves: nothing is awaited on it.
LEMMA CliClosed ==
    ASSUME CliInv, link' = "closed", AnswersMatch', UNCHANGED <<requests, conn, sent, done>>,
           waiting' = {}, frames' \in Seq(Frames)
    PROVE  CliInv'
<1>1. CliTypes' /\ Earlier'
  BY DEF CliInv, CliTypes, Earlier
<1>2. OneAtATime'
  BY DEF OneAtATime
<1> QED BY <1>1, <1>2 DEF CliInv

\* connect_with_timeout: the handshake is the first request of its connection.
LEMMA Connect == ASSUME CliInv, NEW m \in {"client", "run"}, connect(m) PROVE CliInv'
<1> DEFINE r == [Request("hello", "none") EXCEPT !.conn = conn + 1]
<1>1. r \in Asked /\ r.conn = conn + 1
  BY DEF CliInv, CliTypes, Request, Asked, answer_type
<1>2. /\ requests' = Append(requests, r) /\ waiting' = {r} /\ frames' = <<>> /\ reported' = {}
      /\ conn' = conn + 1 /\ sent' = sent + 1
  BY DEF connect
<1> HIDE DEF r
<1>3. /\ requests' \in Seq(Asked) /\ DOMAIN requests' = DOMAIN requests \cup {Len(requests) + 1}
      /\ requests'[Len(requests) + 1] = r
      /\ \A i \in DOMAIN requests : requests'[i] = requests[i] /\ requests'[i].conn <= conn
  BY <1>1, <1>2, OneMore, Z3 DEF CliInv, CliTypes, Earlier
<1>4. CliTypes'
  BY <1>1, <1>2, <1>3, EmptySeq DEF CliInv, CliTypes, connect
<1>5. conn \in Nat /\ \A i \in DOMAIN requests : requests[i].conn \in Nat
  <2>1. \A i \in DOMAIN requests : requests[i] \in Asked
    BY DEF CliInv, CliTypes
  <2> QED BY <2>1 DEF CliInv, CliTypes, Asked
<1>6. Earlier'
  BY <1>1, <1>2, <1>3, <1>5 DEF Earlier
<1>7. \A i \in Unserved(requests', conn') : i = Len(requests) + 1
  BY <1>2, <1>3, <1>5 DEF Unserved
<1>8. Answers(frames') = {}
  BY <1>2 DEF Answers
<1>9. OneAtATime'
  BY <1>2, <1>3, <1>7, <1>8 DEF OneAtATime
<1>10. AnswersMatch'
  BY <1>2 DEF AnswersMatch
<1> QED BY <1>4, <1>6, <1>9, <1>10 DEF CliInv

\* A request is sent when nothing is awaited, so nothing of an earlier one is on its way.
LEMMA Sends ==
    ASSUME CliInv, link = "open", waiting = {}, NEW t \in DOMAIN answer_type,
           NEW on \in {"none", Unknown} \cup ClusterNodes \cup WorkloadIds,
           send(Request(t, on)), reported' = {}, UNCHANGED <<link, frames, done, conn>>
    PROVE  CliInv'
<1> DEFINE r == Request(t, on)
<1>1. r \in Asked /\ r.conn = conn
  BY DEF CliInv, CliTypes, Request, Asked
<1>2. requests' = Append(requests, r) /\ waiting' = {r} /\ sent' = sent + 1
  BY DEF send
<1> HIDE DEF r
<1>3. /\ requests' \in Seq(Asked) /\ DOMAIN requests' = DOMAIN requests \cup {Len(requests) + 1}
      /\ requests'[Len(requests) + 1] = r
      /\ \A i \in DOMAIN requests : requests'[i] = requests[i]
  BY <1>1, <1>2, OneMore, Z3 DEF CliInv, CliTypes
<1>4. CliTypes'
  BY <1>1, <1>2, <1>3 DEF CliInv, CliTypes
<1>5. Earlier'
  BY <1>1, <1>2, <1>3 DEF CliInv, Earlier, CliTypes
<1>6. Unserved(requests, conn) = {} /\ Answers(frames) = {}
  BY DEF CliInv, OneAtATime
<1>7. \A i \in Unserved(requests', conn') : i = Len(requests) + 1
  BY <1>3, <1>6 DEF Unserved
<1>8. OneAtATime'
  BY <1>2, <1>3, <1>6, <1>7 DEF OneAtATime
<1>9. AnswersMatch'
  BY DEF AnswersMatch
<1> QED BY <1>4, <1>5, <1>8, <1>9 DEF CliInv

\* The frame taken is the awaited request's, and no other answer is behind it.
LEMMA Receives == ASSUME ~ Reuse, CliInv, receive PROVE CliInv'
<1>1. PICK r \in waiting :
         /\ frames # <<>> /\ frames' = Tail(frames)
         /\ IF mode = "run" /\ Head(frames) = "control"
            THEN UNCHANGED <<link, waiting, reported>>
            ELSE LET ok == accepts(r, Head(frames))
                 IN  /\ waiting' = {}
                     /\ reported' = IF ok /\ r.type = "hello" THEN {} ELSE Told(r, ok)
                     /\ link' = link_after(r, ok)
         /\ UNCHANGED <<mode, requests, cluster, done, conn, sent, pings>>
  BY DEF receive
<1>2. /\ frames' \in Seq(Frames) /\ Head(frames) \in Frames /\ Head(frames) = frames[1]
      /\ 1 \in DOMAIN frames
      /\ \A i \in DOMAIN frames' : i + 1 \in DOMAIN frames /\ i + 1 # 1 /\ frames'[i] = frames[i + 1]
  BY <1>1, OneLess, Z3 DEF CliInv, CliTypes
<1>3. \A i \in Answers(frames') : i + 1 \in Answers(frames) /\ frames'[i] = frames[i + 1] /\ i + 1 # 1
  BY <1>2 DEF Answers
<1>4. Earlier'
  BY <1>1 DEF CliInv, Earlier
<1>5. CASE mode = "run" /\ Head(frames) = "control"
  <2>1. UNCHANGED <<link, waiting, reported, requests, done, conn, sent>>
    BY <1>1, <1>5
  <2>2. CliTypes' /\ AnswersMatch'
    BY <1>2, <2>1 DEF CliInv, CliTypes, AnswersMatch
  <2>3. \A i, j \in DOMAIN frames' : i \in Nat /\ j \in Nat
    BY <1>2
  <2>4. OneAtATime'
    <3> SUFFICES ASSUME link' = "open"
                 PROVE  /\ \A i, j \in Unserved(requests', conn') : i = j
                        /\ \A i, j \in Answers(frames') : i = j
                        /\ \A i \in Unserved(requests', conn') :
                              waiting' = {requests'[i]} /\ Answers(frames') = {}
                        /\ \A i \in Answers(frames') :
                              \E q \in waiting' : waiting' = {q} /\ Answered(frames'[i], q, done')
      BY DEF OneAtATime
    <3>1. \A i, j \in Answers(frames') : i = j
      BY <1>3, <2>1, <2>3 DEF CliInv, OneAtATime, Answers
    <3>2. \A i \in Unserved(requests', conn') : waiting' = {requests'[i]} /\ Answers(frames') = {}
      BY <1>3, <2>1 DEF CliInv, OneAtATime
    <3>3. \A i \in Answers(frames') :
             \E q \in waiting' : waiting' = {q} /\ Answered(frames'[i], q, done')
      BY <1>3, <2>1 DEF CliInv, OneAtATime, Answered
    <3> QED BY <2>1, <3>1, <3>2, <3>3 DEF CliInv, OneAtATime
  <2> QED BY <1>4, <2>2, <2>4 DEF CliInv
<1>6. CASE ~ (mode = "run" /\ Head(frames) = "control")
  <2> DEFINE ok == accepts(r, Head(frames))
  <2>1. /\ waiting' = {} /\ link' = link_after(r, ok)
        /\ reported' = IF ok /\ r.type = "hello" THEN {} ELSE Told(r, ok)
    BY <1>1, <1>6
  <2>2. ok => frames[1] # "control" /\ frames[1] # "error" /\ 1 \in Answers(frames)
    <3>1. r.type \in DOMAIN answer_type
      BY DEF CliInv, CliTypes, Asked
    <3>2. \A t \in DOMAIN answer_type : answer_type[t] \notin {"control", "error"}
      BY DEF answer_type
    <3> QED BY <1>2, <3>1, <3>2 DEF accepts, Answers
  <2>3. ok => r.serial \in done
    BY <1>2, <2>2 DEF CliInv, CliTypes, OneAtATime, Answered
  <2>4. AnswersMatch'
    <3>1. \A t \in Told(r, ok) : t.ok = ok /\ t.serial = r.serial
      BY DEF Told
    <3> HIDE DEF ok
    <3> QED BY <1>1, <2>1, <2>3, <3>1 DEF AnswersMatch
  <2>5. CASE link' = "closed"
    BY <1>1, <1>2, <2>1, <2>4, <2>5, CliClosed
  <2>6. CASE ok /\ r.type = "hello" /\ link' = "open"
    <3>1. CliTypes'
      BY <1>1, <1>2, <2>1 DEF CliInv, CliTypes
    <3>2. link = "open" /\ Unserved(requests, conn) = {}
      BY <2>2, <2>6 DEF CliInv, CliTypes, OneAtATime
    <3>3. Answers(frames') = {}
      BY <1>3, <2>2, <2>6, <3>2 DEF CliInv, OneAtATime
    <3>4. Unserved(requests', conn') = {}
      BY <1>1, <3>2
    <3>5. OneAtATime'
      BY <3>3, <3>4 DEF OneAtATime
    <3> QED BY <1>4, <2>4, <3>1, <3>5 DEF CliInv
  <2> QED BY <2>1, <2>5, <2>6 DEF link_after
<1> QED BY <1>5, <1>6

\* The gateway serves the one request of the connection, or one whose connection is gone.
LEMMA Serves == ASSUME CliInv, serve PROVE CliInv'
<1> DEFINE r == Head(requests)
           deliver(t) == IF link = "open" /\ r.conn = conn THEN Append(frames, t) ELSE frames
<1>1. /\ requests # <<>> /\ requests' = Tail(requests)
      /\ UNCHANGED <<link, waiting, reported, conn, sent>>
  BY DEF serve
<1>2. /\ requests' \in Seq(Asked) /\ r \in Asked /\ r = requests[1] /\ 1 \in DOMAIN requests
      /\ \A i \in DOMAIN requests' :
            i + 1 \in DOMAIN requests /\ i + 1 # 1 /\ requests'[i] = requests[i + 1]
  BY <1>1, OneLess, Z3 DEF CliInv, CliTypes
<1>3. \/ done' = done \cup {r.serial} /\ frames' = deliver(answer_type[r.type])
      \/ done' = done /\ frames' = deliver("error")
  BY DEF serve
<1> HIDE DEF r
<1>4. PICK f \in Frames : frames' = deliver(f) /\ f # "control" /\ Answered(f, r, done')
  <2>1. answer_type[r.type] \in Frames /\ answer_type[r.type] # "control"
    BY <1>2 DEF Asked, Frames, AnswerTypes, answer_type
  <2>2. "error" \in Frames
    BY DEF Frames, AnswerTypes
  <2> QED BY <1>3, <2>1, <2>2 DEF Answered
<1>5. done \subseteq done'
  BY <1>3
<1>6. AnswersMatch'
  BY <1>1, <1>5 DEF CliInv, AnswersMatch
<1>7. \A i \in DOMAIN requests' : i \in Nat
  BY <1>2
<1>8. Earlier'
  BY <1>1, <1>2 DEF CliInv, Earlier
<1>9. \A i \in Unserved(requests', conn') :
         i + 1 \in Unserved(requests, conn) /\ i + 1 # 1 /\ requests'[i] = requests[i + 1]
  BY <1>1, <1>2 DEF Unserved
<1>10. CASE link = "open" /\ r.conn = conn
  <2>1. 1 \in Unserved(requests, conn)
    BY <1>2, <1>10 DEF Unserved
  <2>2. waiting = {r} /\ Answers(frames) = {}
    BY <1>2, <1>10, <2>1 DEF CliInv, OneAtATime
  <2>3. Unserved(requests', conn') = {}
    BY <1>9, <1>10, <2>1 DEF CliInv, OneAtATime
  <2>4. frames' = Append(frames, f)
    BY <1>4, <1>10
  <2>5. /\ frames' \in Seq(Frames) /\ DOMAIN frames' = DOMAIN frames \cup {Len(frames) + 1}
        /\ frames'[Len(frames) + 1] = f /\ \A i \in DOMAIN frames : frames'[i] = frames[i]
    BY <2>4, OneMore, Z3 DEF CliInv, CliTypes
  <2>6. Answers(frames') = {Len(frames) + 1}
    BY <1>4, <2>2, <2>5 DEF Answers
  <2>7. OneAtATime'
    BY <1>1, <1>4, <2>2, <2>3, <2>5, <2>6 DEF OneAtATime
  <2>8. CliTypes'
    BY <1>1, <1>2, <2>5 DEF CliInv, CliTypes
  <2> QED BY <1>6, <1>8, <2>7, <2>8 DEF CliInv
<1>11. CASE ~ (link = "open" /\ r.conn = conn)
  <2>1. frames' = frames
    BY <1>4, <1>11
  <2>2. CliTypes'
    BY <1>1, <1>2, <2>1 DEF CliInv, CliTypes
  <2>3. OneAtATime'
    <3> SUFFICES ASSUME link' = "open"
                 PROVE  /\ \A i, j \in Unserved(requests', conn') : i = j
                        /\ \A i, j \in Answers(frames') : i = j
                        /\ \A i \in Unserved(requests', conn') :
                              waiting' = {requests'[i]} /\ Answers(frames') = {}
                        /\ \A i \in Answers(frames') :
                              \E q \in waiting' : waiting' = {q} /\ Answered(frames'[i], q, done')
      BY DEF OneAtATime
    <3>1. \A i, j \in Unserved(requests', conn') : i = j
      <4>1. \A i \in Unserved(requests', conn') : i \in Nat
        BY <1>7 DEF Unserved
      <4> QED BY <1>1, <1>9, <4>1 DEF CliInv, OneAtATime
    <3>2. \A i \in Unserved(requests', conn') : waiting' = {requests'[i]} /\ Answers(frames') = {}
      <4>1. \A i \in Unserved(requests, conn) : waiting = {requests[i]} /\ Answers(frames) = {}
        BY <1>1 DEF CliInv, OneAtATime
      <4> QED BY <1>1, <1>9, <2>1, <4>1, Zenon
    <3>3. \A i \in Answers(frames') :
             \E q \in waiting' : waiting' = {q} /\ Answered(frames'[i], q, done')
      <4>1. \A g, q : Answered(g, q, done) => Answered(g, q, done')
        BY <1>5 DEF Answered
      <4>2. link = "open" /\ waiting' = waiting
        BY <1>1
      <4> QED BY <2>1, <4>1, <4>2 DEF CliInv, OneAtATime
    <3> QED BY <1>1, <2>1, <3>1, <3>2, <3>3, Zenon DEF CliInv, OneAtATime
  <2> QED BY <1>6, <1>8, <2>2, <2>3 DEF CliInv
<1> QED BY <1>10, <1>11

\* A control frame is no answer.
LEMMA Pings == ASSUME CliInv, ping_client PROVE CliInv'
<1>1. /\ frames' = Append(frames, "control")
      /\ UNCHANGED <<link, requests, waiting, reported, done, conn, sent>>
  BY DEF ping_client
<1>2. /\ frames' \in Seq(Frames) /\ DOMAIN frames' = DOMAIN frames \cup {Len(frames) + 1}
      /\ frames'[Len(frames) + 1] = "control" /\ \A i \in DOMAIN frames : frames'[i] = frames[i]
  <2>1. "control" \in Frames
    BY DEF Frames
  <2> QED BY <1>1, <2>1, OneMore, Z3 DEF CliInv, CliTypes
<1>3. Answers(frames') = Answers(frames) /\ \A i \in Answers(frames) : frames'[i] = frames[i]
  BY <1>2 DEF Answers
<1>4. CliTypes' /\ Earlier' /\ AnswersMatch'
  BY <1>1, <1>2 DEF CliInv, CliTypes, Earlier, AnswersMatch
<1>5. OneAtATime'
  BY <1>1, <1>3, Zenon DEF CliInv, OneAtATime
<1> QED BY <1>4, <1>5 DEF CliInv

\* Every step of the tool and of the gateway.
LEMMA CliStep == ASSUME ~ Reuse, CliInv, [CliNext]_cli_vars PROVE CliInv'
<1>1. ASSUME UNCHANGED <<link, requests, frames, waiting, done, conn, sent>>, AnswersMatch'
      PROVE  CliInv'
  BY <1>1 DEF CliInv, CliTypes, Earlier, OneAtATime
<1>2. \A r : \A t \in Told(r, FALSE) : ~ t.ok
  BY DEF Told
<1>3. CASE UNCHANGED cli_vars
  BY <1>1, <1>3 DEF CliInv, AnswersMatch, cli_vars
<1>4. CASE connect_failed
  BY <1>1, <1>2, <1>4, Zenon DEF connect_failed, AnswersMatch
<1>5. ASSUME NEW c \in DOMAIN placeholders, placeholder(c) PROVE CliInv'
  BY <1>1, <1>5 DEF placeholder, AnswersMatch, Told
<1>6. ASSUME NEW q \in Queries \cup MoltQueries \cup NodeRequests \cup WorkloadRequests, send_request(q)
      PROVE  CliInv'
  <2>1. /\ q.type \in DOMAIN answer_type
        /\ q.on \in {"none", Unknown} \cup ClusterNodes \cup WorkloadIds
    BY DEF Queries, MoltQueries, NodeRequests, WorkloadRequests, answer_type
  <2> QED BY <1>6, <2>1, Sends, Zenon DEF send_request
<1>7. CASE start_workload
  <2>1. "start_workload" \in DOMAIN answer_type
    BY DEF answer_type
  <2> QED BY <1>7, <2>1, Sends DEF start_workload
<1>8. CASE timed_out
  <2>1. PICK r \in waiting : /\ waiting' = {} /\ reported' = Told(r, FALSE)
                             /\ link' = link_after(r, FALSE)
                             /\ UNCHANGED <<mode, requests, frames, cluster, done, conn, sent, pings>>
    BY <1>8, Zenon DEF timed_out
  <2>2. link' = "closed"
    BY <2>1 DEF link_after
  <2>3. AnswersMatch' /\ frames' \in Seq(Frames)
    BY <1>2, <2>1, Zenon DEF AnswersMatch, CliInv, CliTypes
  <2> QED BY <2>1, <2>2, <2>3, CliClosed, Zenon
<1>9. CASE closed_by_gateway
  <2>1. AnswersMatch' /\ frames' \in Seq(Frames)
    BY <1>2, <1>9, EmptySeq, Zenon DEF closed_by_gateway, AnswersMatch, CliInv
  <2> QED BY <1>9, <2>1, CliClosed DEF closed_by_gateway
<1>10. CASE close
  <2>1. AnswersMatch' /\ frames' \in Seq(Frames)
    BY <1>10 DEF close, AnswersMatch, CliInv, CliTypes
  <2> QED BY <1>10, <2>1, CliClosed DEF close
<1> QED BY <1>3, <1>4, <1>5, <1>6, <1>7, <1>8, <1>9, <1>10, Connect, Receives, Serves, Pings
     DEF CliNext

\* CliClient (client.rs): when every command opens its own connection and drops it after the
\* request, as the commands of claw-cli do, a command that reports success was performed by
\* the gateway, however late answers, timeouts, control frames and lost connections fall.
THEOREM CliAnswersMatch == ASSUME ~ Reuse PROVE CliSpec => []AnswersMatch
<1>1. CliInv => AnswersMatch
  BY DEF CliInv
<1>2. CliInv /\ [CliNext]_cli_vars => CliInv'
  BY CliStep
<1> QED BY <1>1, <1>2, CliStart, PTL DEF CliSpec

-----------------------------------------------------------------------------
(***************************************************************************)
(* The runtime of the tests and the GPU allocator, for every set of GPUs   *)
(* and of threads and any number of containers.                            *)
(***************************************************************************)

\* An id is counted before it is used, waits in one thread only, and names a container
\* at most once.
IdsApart ==
    /\ next_id \in Nat
    /\ \A t \in Threads : \A made \in creating[t] : made[1] \in 1 .. next_id /\ made[1] \notin used
    /\ \A t, u \in Threads : \A x \in creating[t], y \in creating[u] : x[1] = y[1] => t = u /\ x = y
    /\ used \subseteq 1 .. next_id
    /\ DOMAIN containers \subseteq used

FakeInv == FakeTypeOK /\ next_id <= MaxCreated /\ IdsApart /\ AllocatedWhole

\* A new runtime and a new allocator hold nothing.
LEMMA FakeStart == ASSUME MaxCreated \in Nat PROVE FakeInit => FakeInv
BY DEF FakeInit, FakeInv, FakeTypeOK, IdsApart, AllocatedWhole, Ids, Container

\* generate_id: the id a thread takes is new to every other thread and to the map.
LEMMA CreateInv == ASSUME MaxCreated \in Nat, FakeInv, NEW t \in Threads, NEW gpu_ids \in SUBSET Gpus, create(t, gpu_ids)
                   PROVE  FakeInv'
<1>1. next_id' = next_id + 1 /\ next_id' \in Ids
  BY DEF create, generate_id, FakeInv, IdsApart, Ids
<1>2. FakeTypeOK'
  BY <1>1 DEF create, FakeInv, FakeTypeOK
<1>3. IdsApart'
  BY <1>1 DEF create, FakeInv, FakeTypeOK, IdsApart
<1>4. AllocatedWhole'
  BY DEF create, FakeInv, AllocatedWhole
<1> QED BY <1>1, <1>2, <1>3, <1>4 DEF FakeInv, Ids

\* create's insert: the id leaves the one thread that held it.
LEMMA InsertInv == ASSUME MaxCreated \in Nat, FakeInv, NEW t \in Threads, create_insert(t) PROVE FakeInv'
<1> PICK made \in creating[t] :
         /\ containers' = Insert(containers, made[1], [state |-> "Running", gpu_ids |-> made[2]])
         /\ used' = used \cup {made[1]}
         /\ creating' = [creating EXCEPT ![t] = {}]
         /\ UNCHANGED <<next_id, allocations, granted>>
  BY DEF create_insert
<1>1. made[1] \in Ids /\ made[2] \in SUBSET Gpus
  BY DEF FakeInv, FakeTypeOK
<1>2. FakeTypeOK'
  BY <1>1 DEF FakeInv, FakeTypeOK, Insert, Container, ContainerState
<1>3. IdsApart'
  <2>1. \A u \in Threads : \A y \in creating'[u] : u # t /\ y \in creating[u]
    BY DEF FakeInv, FakeTypeOK
  <2>2. \A u \in Threads : \A y \in creating'[u] : y[1] # made[1]
    BY <2>1 DEF FakeInv, IdsApart
  <2>3. made[1] \in 1 .. next_id
    BY DEF FakeInv, IdsApart
  <2>4. DOMAIN containers' = DOMAIN containers \cup {made[1]}
    BY DEF Insert
  <2>5. /\ (next_id \in Nat)' /\ used' \subseteq 1 .. next_id' /\ DOMAIN containers' \subseteq used'
        /\ \A u \in Threads : \A y \in creating'[u] : y[1] \in 1 .. next_id' /\ y[1] \notin used'
    BY <2>1, <2>2, <2>3, <2>4, Zenon DEF FakeInv, IdsApart
  <2>6. \A u, v \in Threads : \A x \in creating'[u], y \in creating'[v] : x[1] = y[1] => u = v /\ x = y
    BY <2>1 DEF FakeInv, IdsApart
  <2> QED BY <2>5, <2>6 DEF IdsApart
<1>4. AllocatedWhole'
  BY DEF FakeInv, AllocatedWhole
<1> QED BY <1>2, <1>3, <1>4 DEF FakeInv

\* start, stop and remove touch no id that is still to be inserted.
LEMMA CallInv == ASSUME MaxCreated \in Nat, FakeInv, NEW c \in DOMAIN containers, start(c) \/ stop(c) \/ remove(c)
                 PROVE  FakeInv'
<1>1. FakeTypeOK'
  BY DEF start, stop, remove, FakeInv, FakeTypeOK, Drop, Container, ContainerState
<1>2. IdsApart'
  BY DEF start, stop, remove, FakeInv, IdsApart, Drop
<1>3. AllocatedWhole' /\ (next_id <= MaxCreated)'
  BY DEF start, stop, remove, FakeInv, AllocatedWhole
<1> QED BY <1>1, <1>2, <1>3 DEF FakeInv

\* allocate takes only free GPUs; release frees those of one container.
LEMMA AllocatorInv == ASSUME MaxCreated \in Nat, FakeInv, allocator_call PROVE FakeInv'
<1>1. UNCHANGED <<containers, next_id, creating, used>>
  BY DEF allocator_call
<1>2. IdsApart' /\ (next_id <= MaxCreated)'
  BY <1>1 DEF FakeInv, IdsApart
<1>3. ASSUME NEW c \in DOMAIN containers, NEW gpus \in SUBSET Gpus, allocate(c, gpus)
      PROVE  FakeTypeOK' /\ AllocatedWhole'
  <2>1. c \in Ids
    BY DEF FakeInv, FakeTypeOK
  <2>2. FakeTypeOK'
    BY <1>1, <1>3, <2>1 DEF allocate, FakeInv, FakeTypeOK
  <2>3. AllocatedWhole'
    BY <1>3, <2>1 DEF allocate, is_available, FakeInv, FakeTypeOK, AllocatedWhole
  <2> QED BY <2>2, <2>3
<1>4. ASSUME NEW c \in used, release(c) PROVE FakeTypeOK' /\ AllocatedWhole'
  <2>1. c \in Ids
    BY DEF FakeInv, IdsApart, Ids
  <2>2. FakeTypeOK'
    BY <1>1, <1>4, <2>1 DEF release, Drop, FakeInv, FakeTypeOK
  <2>3. AllocatedWhole'
    BY <1>4, <2>1 DEF release, Drop, FakeInv, FakeTypeOK, AllocatedWhole
  <2> QED BY <2>2, <2>3
<1> QED BY <1>2, <1>3, <1>4 DEF allocator_call, FakeInv

\* Every step keeps the invariant.
LEMMA FakeStep == ASSUME MaxCreated \in Nat PROVE FakeInv /\ [FakeNext]_fake_vars => FakeInv'
<1> SUFFICES ASSUME FakeInv, [FakeNext]_fake_vars PROVE FakeInv'
  OBVIOUS
<1>1. CASE UNCHANGED fake_vars
  BY <1>1 DEF fake_vars, FakeInv, FakeTypeOK, IdsApart, AllocatedWhole
<1>2. CASE FakeNext
  BY <1>2, CreateInv, InsertInv, CallInv, AllocatorInv DEF FakeNext
<1> QED BY <1>1, <1>2

-----------------------------------------------------------------------------
\* GpuAllocator::allocate and release: a container has all of what it was granted and no
\* more.
THEOREM AllocationsWhole == ASSUME MaxCreated \in Nat PROVE FakeSpec => []AllocatedWhole
<1>1. FakeInv => AllocatedWhole
  BY DEF FakeInv
<1> QED BY <1>1, FakeStart, FakeStep, PTL DEF FakeSpec

\* FakeContainerRuntime implements the contract: whatever threads create, start, stop and
\* remove, an id names one container and keeps its GPUs (generate_id, create, remove).
THEOREM FakeKeepsContract == ASSUME MaxCreated \in Nat PROVE FakeSpec => KeepsContract
<1> DEFINE seen == [c \in DOMAIN containers |->
                       [gpus |-> containers[c].gpu_ids, up |-> containers[c].state = "Running"]]
<1>1. FakeInit => Contract!Init
  BY DEF FakeInit, Contract!Init
<1>2. FakeInv /\ [FakeNext]_fake_vars => [Contract!Next]_Contract!vars
  <2> SUFFICES ASSUME FakeInv, [FakeNext]_fake_vars PROVE Contract!Next \/ UNCHANGED <<seen, used>>
    BY DEF Contract!vars
  <2>1. ASSUME NEW t \in Threads, create_insert(t) PROVE Contract!Next
    <3> PICK made \in creating[t] :
             /\ containers' = Insert(containers, made[1], [state |-> "Running", gpu_ids |-> made[2]])
             /\ used' = used \cup {made[1]}
      BY <2>1 DEF create_insert
    <3>1. made[1] \in Ids /\ made[2] \in SUBSET Gpus /\ made[1] \notin used
      BY DEF FakeInv, FakeTypeOK, IdsApart
    <3>2. seen' = [x \in DOMAIN seen \cup {made[1]} |->
                      IF x = made[1] THEN [gpus |-> made[2], up |-> TRUE] ELSE seen[x]]
      BY Zenon DEF Insert
    <3> QED BY <3>1, <3>2, Zenon DEF Contract!Next, Contract!create
  <2>2. ASSUME NEW c \in DOMAIN containers, start(c) \/ stop(c)
        PROVE  Contract!Next \/ UNCHANGED <<seen, used>>
    <3> DEFINE s == IF start(c) THEN "Running" ELSE "Stopped"
    <3>1. containers' = [containers EXCEPT ![c].state = s] /\ used' = used
      BY <2>2 DEF start, stop
    <3>2. containers[c] \in Container
      BY DEF FakeInv, FakeTypeOK
    <3>3. CASE (s = "Running") = (containers[c].state = "Running")
      BY <3>1, <3>2, <3>3 DEF Container
    <3>4. CASE (s = "Running") # (containers[c].state = "Running")
      <4>1. seen' = [seen EXCEPT ![c].up = ~ @]
        BY <3>1, <3>2, <3>4, Zenon DEF Container
      <4> QED BY <3>1, <4>1, Zenon DEF Contract!Next, Contract!turn
    <3> QED BY <3>3, <3>4
  <2>3. ASSUME NEW c \in DOMAIN containers, remove(c) PROVE Contract!Next
    BY <2>3, Zenon DEF remove, Drop, Contract!Next, Contract!remove
  <2>4. CASE \/ \E t \in Threads, gpu_ids \in SUBSET Gpus : create(t, gpu_ids)
             \/ allocator_call \/ UNCHANGED fake_vars
    BY <2>4, Zenon DEF create, allocator_call, fake_vars
  <2> QED BY <2>1, <2>2, <2>3, <2>4, Zenon DEF FakeNext
<1> QED BY <1>1, <1>2, FakeStart, FakeStep, PTL DEF FakeSpec, KeepsContract, Contract!Spec
=============================================================================
