----------------------------- MODULE MCNetwork -----------------------------
(***************************************************************************)
(* A peer in its network: the tunnels to job providers, its place in the   *)
(* network, its external address, its links and their health, the frames   *)
(* it reads, the answers to its queries, and announcements spreading       *)
(* through a stable ring of four whose fanout covers every node's peers.   *)
(* They share no variable; each behaviour moves one of them, `part`.       *)
(***************************************************************************)
EXTENDS Gossip, JobTunnels, NatTraversal, PeerConnections, TLC

CONSTANTS Parts, a, b, c, d, ann, qry

VARIABLES part,
          node_state, peer_table, known_capacities, our_announcement, joins, online_since,
          found, node_clock, heard,
          frames, taken,
          answer_clock, can_process, seen_ids, cache, pending_sends, pending_events, net, ids,
          asked, stops

node_vars == <<node_state, peer_table, known_capacities, our_announcement, joins,
               online_since, found, node_clock, heard>>
wire_vars == <<frames, taken>>
answer_vars == <<answer_clock, can_process, seen_ids, cache, pending_sends, pending_events, net,
                 ids, asked, stops>>
all_vars == <<part, vars, tunnel_vars, nat_vars, node_vars, link_vars, health_vars, wire_vars,
              answer_vars>>

Ring == {<<a, b>>, <<b, a>>, <<b, c>>, <<c, b>>, <<c, d>>, <<d, c>>, <<d, a>>, <<a, d>>}
FromAB == (ann :> a) @@ (qry :> b)

EachItsProvider == ("j1" :> "p1") @@ ("j2" :> "p2")

TwoServers == <<"s1", "s2">>
FirstPreserves == ("n1" :> TRUE) @@ ("n2" :> FALSE)

Gpu(v, m, n) == [vram |-> v, model |-> m, count |-> n]
MoltNode == INSTANCE MoltNode WITH
    Peers <- {"p1", "p2"},
    Offers <- {[gpus |-> {Gpu(24, "a", 1), Gpu(80, "b", 1)}, job_types |-> {"t"}, price |-> 1]},
    Requirements <- {[min_vram_gb |-> {80}, gpu_model |-> {"a"}, min_gpu_count |-> {2},
                      job_type |-> {"t"}, max_gpu_hour_cents |-> {1}],
                     [min_vram_gb |-> {}, gpu_model |-> {}, min_gpu_count |-> {},
                      job_type |-> {}, max_gpu_hour_cents |-> {0}]},
    MaxResults <- 1, Ttl <- 1, MaxTime <- 1, MaxJoins <- 2,
    state <- node_state, now <- node_clock

\* Frames between two releases.
CURRENT == 1
MIN_COMPATIBLE == 1
Releases == {1, 2}
Framed == {[kind |-> "Announce"], [kind |-> "Query"], [kind |-> "Later"]}

\* A clock ahead of the other; GPUs that meet the filter only together; and a node that
\* is stopped, where announcements have hops left.
Card(m, v) == [model |-> m, vram_gb |-> v]
Offered == [gpus |-> {Card("x", 80), Card("y", 24)}, job_types |-> {"t"}, gpu_hour_cents |-> 2, ttl |-> 1]
Wanted == [gpu_model |-> {"y"}, min_vram_gb |-> {80}, job_type |-> {"t"}, max_gpu_hour_cents |-> {2}]
Cheaper == [gpu_model |-> {}, min_vram_gb |-> {}, job_type |-> {}, max_gpu_hour_cents |-> {1}]
Ahead == ("n1" :> 1) @@ ("n2" :> 0)

Answers == INSTANCE GossipExchange WITH
    Nodes <- {"n1", "n2"}, Skew <- Ahead, Offers <- {Offered}, Filters <- {Wanted}, Limits <- {0, 2},
    max_ttl_hops <- 0, MaxAnnounces <- 2, MaxQueries <- 1, MaxStops <- 0, MaxTime <- 2, MaxSent <- 2,
    Messages <- Framed, clock <- answer_clock, seen <- seen_ids

StoppedAnswers == INSTANCE GossipExchange WITH
    Nodes <- {"n1", "n2"}, Skew <- Ahead, Offers <- {Offered}, Filters <- {Wanted, Cheaper}, Limits <- {0},
    max_ttl_hops <- 1, MaxAnnounces <- 1, MaxQueries <- 1, MaxStops <- 1, MaxTime <- 1, MaxSent <- 2,
    Messages <- Framed, clock <- answer_clock, seen <- seen_ids

-----------------------------------------------------------------------------
Answering == {"answers", "stopped_answers"}

NetworkInit == /\ part \in Parts
               /\ Init /\ TunnelInit /\ NatInit /\ MoltNode!Init
               /\ LinkInit /\ HealthInit /\ Answers!AnswerInit /\ Answers!WireInit
               /\ part # "nat" => network = "n1"

Step == \/ part = "gossip" /\ StableNext
        \/ part = "tunnels" /\ TunnelNext
        \/ part = "nat" /\ NatNext
        \/ part = "node" /\ MoltNode!Next
        \/ part = "link" /\ LinkNext
        \/ part = "health" /\ HealthNext
        \/ part = "wire" /\ Answers!WireNext
        \/ part = "answers" /\ Answers!AnswerNext
        \/ part = "stopped_answers" /\ StoppedAnswers!AnswerNext

Others == /\ IF part = "gossip" THEN TRUE ELSE UNCHANGED vars
          /\ IF part = "tunnels" THEN TRUE ELSE UNCHANGED tunnel_vars
          /\ IF part = "nat" THEN TRUE ELSE UNCHANGED nat_vars
          /\ IF part = "node" THEN TRUE ELSE UNCHANGED node_vars
          /\ IF part = "link" THEN TRUE ELSE UNCHANGED link_vars
          /\ IF part = "health" THEN TRUE ELSE UNCHANGED health_vars
          /\ IF part = "wire" THEN TRUE ELSE UNCHANGED wire_vars
          /\ IF part \in Answering THEN TRUE ELSE UNCHANGED answer_vars

NetworkNext == Step /\ Others /\ UNCHANGED part

\* Timeouts fire, the ends of a link take what the queue gives them, and what is on its
\* way in a stable network arrives.
NetworkSpec == /\ NetworkInit /\ [][NetworkNext]_all_vars
               /\ NatFairness /\ Fairness /\ StableFairness

-----------------------------------------------------------------------------
\* Nothing old or foreign is taken for new: a discovery never caches the answer to an
\* earlier one (discover_external_endpoint), a node that rejoins knows no capacity from
\* before it left (leave, store_capacity), a frame is taken for what was sent or refused
\* (decode_wire), and an answer to a query is fresh, fits it and is whole (query_local,
\* send_response).
NothingStale == [][/\ part = "nat" => FreshEndpoint
                   /\ part = "node" => MoltNode!RejoinStartsFresh'
                   /\ part = "wire" => Answers!TakenAsSent'
                   /\ part \in Answering => Answers!AnswersFit']_all_vars

\* What is begun ends: a discovery, a call on a link whose other end is gone, and a
\* broadcast in a stable network, after it has reached everyone connected.
EverythingSettles == /\ DiscoveryEnds /\ NoWaitForTheGone
                     /\ ReachesEveryone /\ DiesOut
=============================================================================
