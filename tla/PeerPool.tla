------------------------------ MODULE PeerPool ------------------------------
(***************************************************************************)
(* The peer connection pool and the diversity tracker it consults,         *)
(* crates/molt-p2p/src/{connection,diversity}.rs.  The pool is behind one  *)
(* RwLock, so each operation is one step.  The pool knows connections by   *)
(* peer id; the tracker knows them by IP address only.                     *)
(***************************************************************************)
EXTENDS Naturals, FiniteSets

CONSTANTS Peers,           \* peer ids
          Ips,             \* remote addresses
          Subnets,         \* IPv4 /24 subnets and IPv6 /48 prefixes
          SubnetOf,        \* SubnetOf[ip]
          SubnetLimit,     \* max_per_ipv4_subnet or max_per_ipv6_prefix of a subnet
          PrivateIps,      \* addresses refused when allow_private_ips is off
          Asns,            \* autonomous systems
          MaxPerAsn,       \* max_per_asn; 0 is no limit
          MaxConnections,  \* max_connections
          Attempts         \* connections that may be offered: peer, ip, asn

\* An address has one subnet; the asn of a connection is an Option.
ASSUME PoolAssumption ==
    /\ SubnetOf \in [Ips -> Subnets]
    /\ SubnetLimit \in [Subnets -> Nat]
    /\ {MaxPerAsn, MaxConnections} \subseteq Nat
    /\ Attempts \subseteq [peer : Peers, ip : Ips, asn : {{}} \cup {{a} : a \in Asns}]

ConnectionState == {"Connecting", "Connected", "Disconnecting", "Disconnected", "Failed"}

VARIABLES connections,  \* ConnectionPool::connections: attempts that are in the pool
          conn_state,   \* PeerConnection::state of a peer in the pool
          tracker       \* PeerDiversityTracker: its counts and tracked_peers

pool_vars == <<connections, conn_state, tracker>>

\* tracked[ip] is {} for an ip that is not tracked, else {the stored asn Option}.
Tracker == [subnet : [Subnets -> Nat], asn : [Asns -> Nat],
            tracked : [Ips -> SUBSET ({{}} \cup {{a} : a \in Asns})]]

PoolTypeOK == /\ connections \subseteq Attempts
              /\ conn_state \in [Peers -> ConnectionState]
              /\ tracker \in Tracker

-----------------------------------------------------------------------------
check_one_over(ip, asn) ==
    /\ ip \notin PrivateIps
    /\ tracker.subnet[SubnetOf[ip]] <= SubnetLimit[SubnetOf[ip]]
    /\ MaxPerAsn > 0 => \A a \in asn : tracker.asn[a] < MaxPerAsn

check_subnet_only(ip, asn) ==
    /\ ip \notin PrivateIps
    /\ tracker.subnet[SubnetOf[ip]] < SubnetLimit[SubnetOf[ip]]

check(ip, asn) ==
    /\ ip \notin PrivateIps
    /\ tracker.subnet[SubnetOf[ip]] < SubnetLimit[SubnetOf[ip]]
    /\ MaxPerAsn > 0 => \A a \in asn : tracker.asn[a] < MaxPerAsn

add_peer_internal(tr, ip, asn) ==
    [subnet  |-> [tr.subnet EXCEPT ![SubnetOf[ip]] = @ + 1],
     asn     |-> [a \in Asns |-> IF a \in asn THEN tr.asn[a] + 1 ELSE tr.asn[a]],
     tracked |-> [tr.tracked EXCEPT ![ip] = {asn}]]

\* PeerDiversityTracker::remove for each of a set of addresses.  One that is
\* not tracked changes nothing; of a tracked one the stored asn is counted down.
saturating_sub(a, b) == IF a >= b THEN a - b ELSE 0

untrack_subnet_only(tr, ips) ==
    LET known == {ip \in ips : tr.tracked[ip] # {}}
    IN  [tr EXCEPT
           !.subnet = [s \in Subnets |-> saturating_sub(@[s],
                          Cardinality({ip \in known : SubnetOf[ip] = s}))],
           !.tracked = [ip \in Ips |-> IF ip \in ips THEN {} ELSE @[ip]]]

untrack(tr, ips) ==
    LET known == {ip \in ips : tr.tracked[ip] # {}}
    IN  [subnet  |-> [s \in Subnets |-> saturating_sub(tr.subnet[s],
                         Cardinality({ip \in known : SubnetOf[ip] = s}))],
         asn     |-> [a \in Asns |-> saturating_sub(tr.asn[a],
                         Cardinality({ip \in known : {a} \in tr.tracked[ip]}))],
         tracked |-> [ip \in Ips |-> IF ip \in ips THEN {} ELSE tr.tracked[ip]]]

-----------------------------------------------------------------------------
is_full == Cardinality(connections) >= MaxConnections

add_connection(c) ==
    /\ ~ is_full
    /\ \A d \in connections : d.peer # c.peer
    /\ check(c.ip, c.asn)
    /\ connections' = connections \cup {c}
    /\ conn_state' = [conn_state EXCEPT ![c.peer] = "Connecting"]
    /\ tracker' = add_peer_internal(tracker, c.ip, c.asn)

\* mark_connected, mark_failed and mark_disconnected apply in any state,
\* mark_disconnecting to a connected peer only.
mark(c, s) == /\ s = "Disconnecting" => conn_state[c.peer] = "Connected"
              /\ conn_state' = [conn_state EXCEPT ![c.peer] = s]
              /\ UNCHANGED <<connections, tracker>>

\* A peer that leaves the pool has no state; "Connecting" stands for that too.
forget(cs) == /\ connections' = connections \ cs
              /\ conn_state' = [p \in Peers |-> IF \E c \in cs : c.peer = p
                                                THEN "Connecting" ELSE conn_state[p]]
              /\ tracker' = untrack(tracker, {c.ip : c \in cs})

remove(c) == forget({c})

terminal == {c \in connections : conn_state[c.peer] \in {"Disconnected", "Failed"}}

cleanup_terminal == terminal # {} /\ forget(terminal)

PoolInit == /\ connections = {}
            /\ conn_state = [p \in Peers |-> "Connecting"]
            /\ tracker = [subnet |-> [s \in Subnets |-> 0], asn |-> [a \in Asns |-> 0],
                          tracked |-> [ip \in Ips |-> {}]]

PoolNext == \/ \E c \in Attempts : add_connection(c)
            \/ \E c \in connections : remove(c)
            \/ \E c \in connections, s \in ConnectionState \ {"Connecting"} : mark(c, s)
            \/ cleanup_terminal

PoolSpec == PoolInit /\ [][PoolNext]_pool_vars

-----------------------------------------------------------------------------
InSubnet(s) == {c \in connections : SubnetOf[c.ip] = s}
InAsn(a)    == {c \in connections : a \in c.asn}

\* However connections come, go, fail and are cleaned up, and however many
\* peers share an address, no subnet has more connections than its limit,
\* although the tracker forgets an address when its first peer leaves.
SubnetLimitHolds == \A s \in Subnets : Cardinality(InSubnet(s)) <= SubnetLimit[s]

\* When every peer has an address of its own, the tracker's counts are the
\* pool's: no capacity is lost and none is granted twice.
CountsMatchPool ==
    /\ \A s \in Subnets : tracker.subnet[s] = Cardinality(InSubnet(s))
    /\ \A a \in Asns : tracker.asn[a] = Cardinality(InAsn(a))

\* "Maximum connections allowed from the same Autonomous System."
\* (diversity.rs:48): the pool never holds more connections of one AS.
AsnLimitHolds == MaxPerAsn > 0 => \A a \in Asns : Cardinality(InAsn(a)) <= MaxPerAsn

\* Every peer has an address of its own.
OwnAddresses == \A c, d \in Attempts : c.ip = d.ip => c.peer = d.peer

\* add_connection, remove and cleanup_terminal keep every subnet within its limit, also
\* when peers share an address; and when every peer has an address of its own they keep
\* the tracker's counts equal to the pool's, so that the pool never holds more
\* connections of one AS than max_per_asn.
PoolLimitsHold == SubnetLimitHolds /\ (OwnAddresses => CountsMatchPool /\ AsnLimitHolds)
=============================================================================
