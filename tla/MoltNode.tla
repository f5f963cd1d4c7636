------------------------------ MODULE MoltNode ------------------------------
(***************************************************************************)
(* A participant of the MOLT network, crates/molt-p2p/src/network.rs, with *)
(* the messages, announcements and peer records it handles (message.rs,    *)
(* protocol.rs, discovery.rs, gossip/announcement.rs).  Its state is behind *)
(* one lock, taken once by every call except leave, which releases it      *)
(* while the connections are closed: other calls meet the node leaving.    *)
(* Nothing adds a connection to the pool of a MoltNetwork (the field is    *)
(* private and join only simulates one), so a broadcast reaches 0 peers.   *)
(***************************************************************************)
EXTENDS Naturals, FiniteSets, FiniteSetsExt

CONSTANTS Peers,         \* PeerId values
          Offers,        \* what can be announced: [gpus, job_types, price]
          Requirements,  \* CapacityRequirements; a field is {} or one value
          MaxResults,    \* max_results of find_providers
          Ttl,           \* time to live of an announcement
          MaxTime,       \* bound on the clock
          MaxJoins       \* bound on successful_joins

VARIABLES state,             \* NetworkState
          peer_table,        \* PeerTable: the peers it holds
          known_capacities,  \* known_capacities[p] is {} or one announcement
          our_announcement,  \* {} or one offer
          joins,             \* stats.successful_joins
          online_since,      \* stats.online_since: {} or one time
          found,             \* providers of the last ProviderSearchResult
          now,               \* the node's clock
          heard              \* history: announcements stored since the last leave

vars == <<state, peer_table, known_capacities, our_announcement, joins, online_since,
          found, now, heard>>

NetworkState == {"Offline", "Joining", "Online", "Leaving"}

\* A peer whose clock is ahead announces with a later time than ours.
CapacityAnnouncement == [peer_id : Peers, offer : Offers, created_at : 0..MaxTime]

TypeOK == /\ state \in NetworkState
          /\ peer_table \subseteq Peers
          /\ \A p \in Peers : known_capacities[p] \subseteq CapacityAnnouncement
          /\ our_announcement \subseteq Offers
          /\ joins \in 0..MaxJoins /\ now \in 0..MaxTime
          /\ online_since \subseteq 0..MaxTime
          /\ found \subseteq CapacityAnnouncement /\ heard \subseteq CapacityAnnouncement

Init == /\ state = "Offline"
        /\ peer_table = {} /\ known_capacities = [p \in Peers |-> {}]
        /\ our_announcement = {}
        /\ joins = 0 /\ online_since = {}
        /\ found = {} /\ now = 0 /\ heard = {}

-----------------------------------------------------------------------------
\* CapacityAnnouncement::is_expired.  One from the future has no elapsed time
\* and counts as expired.
is_expired(a) == a.created_at > now \/ now - a.created_at > Ttl

is_operational == state = "Online"

\* matches_requirements: different GPUs of one offer may meet the demands on
\* memory, model and number.  A GPU is [vram, model, count].
matches_requirements(o, r) ==
    /\ \A v \in r.min_vram_gb : \E g \in o.gpus : g.vram >= v
    /\ \A m \in r.gpu_model : \E g \in o.gpus : g.model = m
    /\ \A n \in r.min_gpu_count : MapThenSumSet(LAMBDA g : g.count, o.gpus) >= n
    /\ r.job_type \subseteq o.job_types
    /\ \A c \in r.max_gpu_hour_cents : o.price <= c

\* join, with or without bootstrap nodes, which are not contacted.
join == /\ state = "Offline" /\ joins < MaxJoins
        /\ state' = "Online"
        /\ joins' = joins + 1 /\ online_since' = {now}
        /\ UNCHANGED <<peer_table, known_capacities, our_announcement, found, now, heard>>

leave_begin == /\ state = "Online"
               /\ state' = "Leaving"
               /\ UNCHANGED <<peer_table, known_capacities, our_announcement, joins,
                              online_since, found, now, heard>>

\* Variant: only what belongs to peers of the table is cleared.
leave_end_partly == /\ state = "Leaving"
                    /\ state' = "Offline" /\ online_since' = {}
                    /\ known_capacities' = [p \in Peers |->
                          IF p \in peer_table THEN {} ELSE known_capacities[p]]
                    /\ heard' = {}
                    /\ UNCHANGED <<peer_table, our_announcement, joins, found, now>>

leave_end == /\ state = "Leaving"
             /\ state' = "Offline" /\ online_since' = {}
             /\ known_capacities' = [p \in Peers |-> {}]
             /\ heard' = {}
             /\ UNCHANGED <<peer_table, our_announcement, joins, found, now>>

broadcast_capacity(o) == /\ is_operational
                         /\ our_announcement' = {o}
                         /\ UNCHANGED <<state, peer_table, known_capacities, joins,
                                        online_since, found, now, heard>>

\* The order of the matches is that of a hash map: any of them may be cut off.
find_providers(r) ==
    /\ is_operational
    /\ LET all == {a \in UNION {known_capacities[p] : p \in Peers} :
                      ~ is_expired(a) /\ matches_requirements(a.offer, r)}
       IN  \E kept \in SUBSET all :
             /\ Cardinality(kept) = IF Cardinality(all) < MaxResults
                                    THEN Cardinality(all) ELSE MaxResults
             /\ found' = kept
    /\ UNCHANGED <<state, peer_table, known_capacities, our_announcement, joins,
                   online_since, now, heard>>

\* store_capacity replaces what is known of the peer, be it newer.
store_capacity(a) == /\ ~ is_expired(a)
                     /\ known_capacities' = [known_capacities EXCEPT ![a.peer_id] = {a}]
                     /\ heard' = heard \cup {a}
                     /\ UNCHANGED <<state, peer_table, our_announcement, joins, online_since,
                                    found, now>>

cleanup_expired_capacities ==
    /\ known_capacities' = [p \in Peers |-> {a \in known_capacities[p] : ~ is_expired(a)}]
    /\ UNCHANGED <<state, peer_table, our_announcement, joins, online_since, found, now, heard>>

add_peer(p) == /\ peer_table' = peer_table \cup {p}
               /\ UNCHANGED <<state, known_capacities, our_announcement, joins, online_since,
                              found, now, heard>>

remove_peer(p) == /\ peer_table' = peer_table \ {p}
                  /\ known_capacities' = [known_capacities EXCEPT ![p] = {}]
                  /\ UNCHANGED <<state, our_announcement, joins, online_since, found, now, heard>>

tick == /\ now < MaxTime
        /\ now' = now + 1
        /\ UNCHANGED <<state, peer_table, known_capacities, our_announcement, joins,
                       online_since, found, heard>>

Next == \/ join \/ leave_begin \/ leave_end \/ cleanup_expired_capacities \/ tick
        \/ \E o \in Offers : broadcast_capacity(o)
        \/ \E r \in Requirements : find_providers(r)
        \/ \E a \in CapacityAnnouncement : store_capacity(a)
        \/ \E p \in Peers : add_peer(p) \/ remove_peer(p)

Spec == Init /\ [][Next]_vars

-----------------------------------------------------------------------------
\* A node that left and joins again finds no provider it heard of before it
\* left, although announcements keep being stored while leave has released the
\* lock (leave clears known_capacities when it takes the lock again).
RejoinStartsFresh == \A p \in Peers : known_capacities[p] \subseteq heard

\* A newer announcement of a peer is not replaced by an older one that arrives
\* later ("Store or update").  It is: store_capacity does not compare the times.
NewestKept == [][\A p \in Peers : \A a \in known_capacities[p], b \in known_capacities'[p] :
                    a.created_at <= b.created_at]_vars
=============================================================================
