------------------------------- MODULE MCP2p -------------------------------
(***************************************************************************)
(* What a peer-to-peer node keeps by itself, the connection pool, its      *)
(* diversity tracker, the gossip caches and the rate limiter; and gossip   *)
(* between three nodes that come and go.  They share no variable, so what *)
(* holds of one while the others stand still holds in every interleaving;  *)
(* each behaviour here moves one of them, `part`.  The pool and the        *)
(* tracker are taken twice (every peer with an address of its own; peers   *)
(* behind one address), and so is the cache (with responses; without).     *)
(***************************************************************************)
EXTENDS Gossip, PeerPool, TLC

CONSTANTS Parts, p1, p2, p3, p4, ip1, ip2, ip3, priv, net1, net2, as1, Ids, RespondedIds

VARIABLES part, shared_connections, shared_state, shared_tracker,
          seen_messages, id_order, announcement_cache, announcement_order,
          next_announcement_seq,
          now, peer_states, last_cleanup, allowed, outlawed,
          config, subnets, prefixes, asns, regions, tracked_peers, tightened

shared_vars  == <<shared_connections, shared_state, shared_tracker>>
cache_vars   == <<seen_messages, id_order, announcement_cache, announcement_order,
                  next_announcement_seq>>
limiter_vars == <<now, peer_states, last_cleanup, allowed, outlawed>>
tracker_vars == <<config, subnets, prefixes, asns, regions, tracked_peers, tightened>>
all_vars     == <<part, vars, pool_vars, shared_vars, cache_vars, limiter_vars, tracker_vars>>

\* Two addresses in one subnet whose limit is two, one address in another and
\* a private one.
TwoSubnets == (ip1 :> net1) @@ (ip2 :> net1) @@ (ip3 :> net2) @@ (priv :> net2)
TwoAndOne  == (net1 :> 2) @@ (net2 :> 1)

Offer(p, i, a) == [peer |-> p, ip |-> i, asn |-> a]

Unshared == {Offer(p1, ip1, {as1}), Offer(p2, ip2, {}), Offer(p2, ip2, {as1}),
             Offer(p3, ip3, {as1}), Offer(p4, priv, {})}

SharedAddress == {Offer(p1, ip1, {}), Offer(p2, ip1, {as1}), Offer(p3, ip2, {as1}),
                  Offer(p4, ip3, {as1}), Offer(p1, ip3, {})}

SharedPool == INSTANCE PeerPool WITH
    Attempts <- SharedAddress, connections <- shared_connections, conn_state <- shared_state,
    tracker <- shared_tracker

\* Two addresses in one /24, a private one, and two in one /48.
Default == INSTANCE PeerDiversity WITH
    Addresses <- {}, Asns <- {}, Regions <- {}, Configs <- {}, Shared <- FALSE, MaxPeers <- 0

TrackerAddresses == {<<8, 8, 8, 1>>, <<8, 8, 8, 2>>, <<10, 0, 0, 1>>,
                     <<8193, 3512, 1, 0, 0, 0, 0, 1>>, <<8193, 3512, 1, 0, 0, 0, 0, 2>>}
TrackerConfigs == {Default!DefaultConfig, Default!strict, Default!disabled,
                   Default!with_max_per_asn(Default!permissive, 1),
                   Default!with_max_per_asn(Default!DefaultConfig, 0)}

Diversity == INSTANCE PeerDiversity WITH
    Addresses <- TrackerAddresses, Asns <- {1, 2}, Regions <- {"r"}, Configs <- TrackerConfigs,
    Shared <- FALSE, MaxPeers <- 3

SharedTracker == INSTANCE PeerDiversity WITH
    Addresses <- TrackerAddresses, Asns <- {1, 2}, Regions <- {}, Configs <- TrackerConfigs,
    Shared <- TRUE, MaxPeers <- 3

\* Room for two or three entries, and one more id, peer or stamp than fits.  Two
\* messages per window, and a ban at the second violation that outlasts the window as
\* the defaults' bans do.
Limits == INSTANCE GossipLimits WITH
    Peers <- {p1, p2}, Stamps <- {1, 2, 3}, max_seen_cache <- 2, seen_order <- id_order,
    max_announcements_per_peer <- 2, max_total_announcements <- 3, MaxSeq <- 4,
    max_messages_per_window <- 2, window_duration <- 1, violations_before_ban <- 2,
    ban_duration <- 2, CLEANUP_INTERVAL <- 2, MaxTime <- 5

Unanswered == INSTANCE GossipLimits WITH
    Peers <- {p1, p2}, Stamps <- {1}, max_seen_cache <- 2, seen_order <- id_order, RespondedIds <- {},
    max_announcements_per_peer <- 1, max_total_announcements <- 1, MaxSeq <- 0,
    max_messages_per_window <- 2, window_duration <- 1, violations_before_ban <- 2,
    ban_duration <- 2, CLEANUP_INTERVAL <- 2, MaxTime <- 5

\* Three fully connected nodes, each of which sends to one peer only.
AnnAQryB == ("ann" :> "a") @@ ("qry" :> "b")
Everyone == Nodes \X Nodes \ {<<n, n>> : n \in Nodes}

-----------------------------------------------------------------------------
P2pInit == /\ part \in Parts
           /\ Init /\ PoolInit /\ SharedPool!PoolInit /\ Limits!CacheInit /\ Limits!LimiterInit
           /\ Diversity!Init
           /\ part \notin {"tracker", "shared_tracker"} => config = Default!DefaultConfig

Step == \/ part = "pool" /\ PoolNext
        \/ part = "shared_pool" /\ SharedPool!PoolNext
        \/ part = "tracker" /\ Diversity!Next
        \/ part = "shared_tracker" /\ SharedTracker!Next
        \/ part = "cache" /\ Limits!CacheNext
        \/ part = "unanswered" /\ Unanswered!CacheNext
        \/ part = "limiter" /\ Limits!LimiterNext
        \/ part = "gossip" /\ Next

Others == /\ IF part = "pool" THEN TRUE ELSE UNCHANGED pool_vars
          /\ IF part = "shared_pool" THEN TRUE ELSE UNCHANGED shared_vars
          /\ IF part \in {"tracker", "shared_tracker"} THEN TRUE ELSE UNCHANGED tracker_vars
          /\ IF part \in {"cache", "unanswered"} THEN TRUE ELSE UNCHANGED cache_vars
          /\ IF part = "limiter" THEN TRUE ELSE UNCHANGED limiter_vars
          /\ IF part = "gossip" THEN TRUE ELSE UNCHANGED vars

P2pNext == Step /\ Others /\ UNCHANGED part

P2pSpec == P2pInit /\ [][P2pNext]_all_vars

-----------------------------------------------------------------------------
\* "Maximum connections allowed from the same Autonomous System."
\* (diversity.rs:48): also when peers share an address.
SharedAsnLimitHolds == part = "shared_pool" => SharedPool!AsnLimitHolds

\* cache_announcement, cleanup and remove_peer keep announcement_order a list of exactly
\* what is cached, oldest first, within both limits; mark_seen and cleanup leave no id in
\* seen_messages that cannot be evicted, and without responses evict the oldest.
CacheInOrder ==
    /\ part = "cache" => Limits!OrderListsCache /\ Limits!CacheWithinLimits /\ Limits!SeenIsQueued
    /\ part = "unanswered" => Unanswered!SeenWithinLimit /\ Unanswered!SeenOrderListsSeen

\* check_and_record lets no more than a window's worth through, does not prolong the ban
\* of a peer that keeps sending, and has a ban on record for every peer at the violation
\* threshold; the tracker passes no limit it had not passed when the limit was set, and
\* its score is at most 1; and peers that share an address stay within their subnet's
\* limit.
LimitsHold ==
    /\ part = "limiter" => Limits!WindowLimitHolds /\ Limits!BanIsBounded /\ Limits!ThresholdBans
    /\ part = "tracker" => Diversity!DiversityHolds
    /\ part = "shared_tracker" => SharedTracker!DiversityHolds
    /\ part = "shared_pool" => SharedPool!PoolLimitsHold
=============================================================================
