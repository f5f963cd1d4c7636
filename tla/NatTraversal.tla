---------------------------- MODULE NatTraversal ----------------------------
(***************************************************************************)
(* Discovery of the node's external endpoint with STUN,                    *)
(* crates/molt-p2p/src/nat.rs.  A discovery binds a fresh socket and asks  *)
(* the servers one after the other; a server that does not answer within   *)
(* the timeout is passed over, but its answer may still arrive.  Every     *)
(* request has the same transaction id and the sender of an answer is not  *)
(* looked at.  The node may move to another network at any time.           *)
(***************************************************************************)
EXTENDS Naturals, Sequences

CONSTANTS Servers,         \* stun_servers in the order they are asked, a sequence
          Networks,        \* where the node can be: its external addresses
          Preserves,       \* Preserves[n]: does the NAT of network n keep the port?
          MaxDiscoveries   \* bound on the discoveries started

VARIABLES network,          \* the network the node is in
          cached_endpoint,  \* {} or one EndpointDiscovery
          socket,           \* number of the last socket bound
          cursor,           \* 0: no discovery runs; i: server i is asked
          inbound,          \* answers on their way: [socket, server, addr, ok]
          actual,           \* history: {} or the answer the cached endpoint is made from
          visited           \* history: the networks the node was in since the last
                            \* discovery began

nat_vars == <<network, cached_endpoint, socket, cursor, inbound, actual, visited>>

NatType == {"None", "FullCone", "Unknown"}

Answer == [socket : 1..MaxDiscoveries, server : 1..Len(Servers),
           addr : Networks, ok : BOOLEAN]

NatTypeOK == /\ network \in Networks
             /\ cached_endpoint \subseteq
                   [external : Networks, nat_type : NatType, stun_server : 1..Len(Servers)]
             /\ socket \in 0..MaxDiscoveries
             /\ cursor \in 0..Len(Servers)
             /\ inbound \subseteq Answer /\ actual \subseteq Answer
             /\ visited \subseteq Networks

NatInit == /\ network \in Networks
           /\ cached_endpoint = {} /\ actual = {} /\ visited = {}
           /\ socket = 0 /\ cursor = 0
           /\ inbound = {}

-----------------------------------------------------------------------------
\* determine_nat_type.  The socket is bound to 0.0.0.0, which is nobody's
\* external address, so "None" is never the outcome.
determine_nat_type(addr) == IF Preserves[addr] THEN "FullCone" ELSE "Unknown"

\* query_stun_server as far as the request.  The answer may be lost, or be one
\* that parse_stun_response refuses (ok is FALSE); rest has arrived before.
ask(i, n, rest) ==
    \/ inbound' = rest
    \/ \E ok \in BOOLEAN :
          inbound' = rest \cup {[socket |-> n, server |-> i, addr |-> network, ok |-> ok]}

\* Variant: the socket of the first discovery is kept.
bound_once == 1

\* UdpSocket::bind: a socket no earlier answer is addressed to.
bound == socket + 1

discover_begin == /\ cursor = 0 /\ socket < MaxDiscoveries /\ Len(Servers) > 0
                  /\ socket' = bound
                  /\ cursor' = 1
                  /\ ask(1, bound, inbound)
                  /\ visited' = {network}
                  /\ UNCHANGED <<network, cached_endpoint, actual>>

\* "Try next server"; after the last one the discovery fails and the endpoint
\* of an earlier one stays cached.
next_server(rest) == IF cursor < Len(Servers)
                     THEN cursor' = cursor + 1 /\ ask(cursor + 1, socket, rest)
                     ELSE cursor' = 0 /\ inbound' = rest

\* send_to fails, or recv_from reports the timeout.
timed_out == /\ cursor > 0
             /\ next_server(inbound)
             /\ UNCHANGED <<network, cached_endpoint, socket, actual, visited>>

\* recv_from returns an answer to this socket, whoever sent it.
received == \E a \in inbound :
    /\ cursor > 0 /\ a.socket = socket
    /\ IF a.ok
       THEN /\ cached_endpoint' = {[external |-> a.addr,
                                    nat_type |-> determine_nat_type(a.addr),
                                    stun_server |-> cursor]}
            /\ actual' = {a}
            /\ cursor' = 0
            /\ inbound' = inbound \ {a}
       ELSE /\ next_server(inbound \ {a})
            /\ UNCHANGED <<cached_endpoint, actual>>
    /\ UNCHANGED <<network, socket, visited>>

\* The node moves, also while a discovery waits for a server.
move(n) == /\ n # network
           /\ network' = n
           /\ visited' = visited \cup {n}
           /\ UNCHANGED <<cached_endpoint, socket, cursor, inbound, actual>>

\* can_connect_directly.
can_connect_directly == \E e \in cached_endpoint : e.nat_type \in {"None", "FullCone"}

NatNext == discover_begin \/ timed_out \/ received \/ \E n \in Networks : move(n)

NatFairness == WF_nat_vars(timed_out \/ received)

NatSpec == NatInit /\ [][NatNext]_nat_vars /\ NatFairness

-----------------------------------------------------------------------------
\* A discovery that succeeds caches the endpoint of a network the node has been in since
\* the discovery began: of the network it is in, unless it moved meanwhile.  An answer to
\* an earlier discovery, however late, is never taken for an answer to this one
\* (discover_external_endpoint binds a socket of its own).
FreshEndpoint ==
    cached_endpoint' # cached_endpoint => \A e \in cached_endpoint' : e.external \in visited

\* Every discovery ends: each server is given one timeout at the most
\* (set_read_timeout, then the next server).
DiscoveryEnds == [](cursor > 0 => <>(cursor = 0))

\* "STUN server that responded.": the server noted in the cached endpoint is the
\* one whose answer it is.  A late answer of a server that was passed over is
\* taken for the answer of the next one.
NotesTheResponder ==
    \A e \in cached_endpoint, a \in actual : e.stun_server = a.server
=============================================================================
