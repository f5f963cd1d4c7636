------------------------------- MODULE Gossip -------------------------------
(***************************************************************************)
(* Epidemic broadcast between gossip nodes,                                *)
(* crates/molt-p2p/src/gossip/{broadcast,node}.rs.  A node handles one     *)
(* message at a time; what it queues in pending_sends travels over a       *)
(* transport that reorders and may lose messages.  A node forgets the id   *)
(* of a message it has seen when its cache is full or the id is old,       *)
(* whether or not copies are still on their way.  The announcement cache's *)
(* size and the rate limiter have modules of their own; here a node may    *)
(* refuse any message for the rate limit.                                  *)
(***************************************************************************)
EXTENDS Naturals, FiniteSets, Sequences

CONSTANTS Nodes,      \* peer ids
          Announces,  \* ids of announcements
          Queries,    \* ids of queries
          Origin,     \* the node each message starts at
          Links,      \* peers that nodes may come to know: <<n, p>>
          fanout,     \* BroadcastConfig::fanout
          max_ttl_hops,
          max_seen_cache,
          MaxQueue,   \* bound on seen_order, which responses lengthen
          MaxChurn    \* bound on starts, stops and peer changes

Messages == Announces \cup Queries

ASSUME GossipAssumption == /\ Origin \in [Messages -> Nodes]
                           /\ Links \subseteq Nodes \X Nodes
                           /\ \A n \in Nodes : <<n, n>> \notin Links
                           /\ {fanout, max_ttl_hops, max_seen_cache, MaxQueue, MaxChurn}
                                 \subseteq Nat

VARIABLES running,      \* nodes whose state can_process
          known_peers,  \* GossipBroadcaster::known_peers
          seen,         \* GossipBroadcaster::seen_messages
          seen_order,   \* the queue that gives the order of eviction
          cached,       \* announcements in announcement_cache
          expired,      \* announcements whose own ttl has passed
          sent,         \* messages their origin has broadcast
          inflight,     \* messages on their way
          told,         \* queries whose event a node has emitted
          handled,      \* history: how often a node took a message for new since it
                        \* last forgot the id, counted up to two
          churn

seen_vars == <<seen, seen_order, handled>>

vars == <<running, known_peers, seen, seen_order, cached, expired, sent, inflight, told,
          handled, churn>>

Flight == [kind : {"announce", "query", "response"}, msg : Messages,
           from : Nodes, to : Nodes, ttl_hops : 0 .. max_ttl_hops,
           hops : 1 .. max_ttl_hops + 2]

TypeOK == /\ running \subseteq Nodes
          /\ known_peers \in [Nodes -> SUBSET Nodes]
          /\ seen \in [Nodes -> SUBSET Messages]
          /\ seen_order \in [Nodes -> Seq(Messages)]
          /\ cached \in [Nodes -> SUBSET Announces]
          /\ expired \subseteq Announces
          /\ sent \subseteq Messages
          /\ inflight \subseteq Flight
          /\ told \in [Nodes -> SUBSET Queries]
          /\ handled \in [Nodes -> [Messages -> 0 .. 2]]
          /\ churn \in 0 .. MaxChurn

kind(m) == IF m \in Announces THEN "announce" ELSE "query"

-----------------------------------------------------------------------------
\* Random choice of `fanout` candidates, or all of them if they are no more.
fanout_choices(candidates) ==
    IF Cardinality(candidates) <= fanout THEN {candidates}
    ELSE {T \in SUBSET candidates : Cardinality(T) = fanout}

\* Copies of message m to a set of targets; a forwarded copy keeps its ttl_hops.
\* hops is history: the transmissions so far, counted up to one too many.
copies_ttl_counted_up(m, n, targets, ttl, hops) ==
    {[kind |-> kind(m), msg |-> m, from |-> n, to |-> p, ttl_hops |-> ttl + 1,
      hops |-> IF hops <= max_ttl_hops + 2 THEN hops ELSE max_ttl_hops + 2] : p \in targets}

copies(m, n, targets, ttl, hops) ==
    {[kind |-> kind(m), msg |-> m, from |-> n, to |-> p, ttl_hops |-> ttl,
      hops |-> IF hops <= max_ttl_hops + 2 THEN hops ELSE max_ttl_hops + 2] : p \in targets}

\* What node n takes for new in this step; what it forgets in it counts from nought.
note(n, taken) ==
    handled' = [handled EXCEPT ![n] = [m \in Messages |->
        IF m \in seen[n] \ seen'[n] THEN 0
        ELSE IF m \in taken /\ handled[n][m] < 2 THEN handled[n][m] + 1
        ELSE handled[n][m]]]

mark_seen_nothing(n, m) == UNCHANGED <<seen, seen_order>>

\* At capacity the id at the front of the queue goes; then the id is added to the map
\* and to the back of the queue.  Of an id that was marked twice the front may be stale.
mark_seen(n, m) ==
    LET evict == Cardinality(seen[n]) >= max_seen_cache /\ seen_order[n] # <<>>
        front == IF evict THEN {Head(seen_order[n])} ELSE {}
        rest  == IF evict THEN Tail(seen_order[n]) ELSE seen_order[n]
    IN  /\ seen' = [seen EXCEPT ![n] = (@ \ front) \cup {m}]
        /\ seen_order' = [seen_order EXCEPT ![n] = Append(rest, m)]

cache_announcement_nothing(n, m) == cached' = cached

cache_announcement(n, m) == cached' = [cached EXCEPT ![n] = @ \cup {m}]

-----------------------------------------------------------------------------
prepare_announce(m) ==
    LET n == Origin[m] IN
    /\ n \in running
    /\ m \in Announces \ sent
    /\ sent' = sent \cup {m}
    /\ mark_seen(n, m) /\ note(n, {m})
    /\ cache_announcement(n, m)
    /\ \E T \in fanout_choices(known_peers[n]) :
          inflight' = inflight \cup copies(m, n, T, max_ttl_hops, 1)
    /\ UNCHANGED <<running, known_peers, expired, told, churn>>

\* A query goes to every known peer and is not marked as seen.
prepare_query(m) ==
    LET n == Origin[m] IN
    /\ n \in running
    /\ m \in Queries \ sent
    /\ sent' = sent \cup {m}
    /\ inflight' = inflight \cup copies(m, n, known_peers[n], max_ttl_hops, 1)
    /\ UNCHANGED <<running, known_peers, seen_vars, cached, expired, told, churn>>

duplicate(f) == f.kind # "response" /\ f.msg \in seen[f.to]

\* Forwarding excludes the sender, and for a query its origin as well.
excluded_sender_only(f) == {f.from}

excluded(f) == IF f.kind = "query" THEN {f.from, Origin[f.msg]} ELSE {f.from}

\* Received and dropped: the node is not running, the sender is over its rate
\* limit or banned, the message is a duplicate or an expired announcement, or
\* the transport lost it.
refuse(f) ==
    /\ f \in inflight
    /\ inflight' = inflight \ {f}
    /\ UNCHANGED <<running, known_peers, seen_vars, cached, expired, sent, told, churn>>

handle_announce(f) ==
    LET n == f.to IN
    /\ f \in inflight /\ f.kind = "announce"
    /\ n \in running
    /\ ~ duplicate(f)
    /\ f.ttl_hops = 0 \/ f.msg \notin expired
    /\ mark_seen(n, f.msg) /\ note(n, {f.msg})
    /\ cache_announcement(n, f.msg)
    /\ \E T \in fanout_choices(known_peers[n] \ excluded(f)) :
          inflight' = (inflight \ {f}) \cup
              IF f.ttl_hops = 0 THEN {}
              ELSE copies(f.msg, n, T, f.ttl_hops, f.hops + 1)
    /\ UNCHANGED <<running, known_peers, expired, sent, told, churn>>

handle_query(f) ==
    LET n == f.to IN
    /\ f \in inflight /\ f.kind = "query"
    /\ n \in running
    /\ ~ duplicate(f)
    /\ mark_seen(n, f.msg) /\ note(n, {f.msg})
    /\ told' = [told EXCEPT ![n] = @ \cup {f.msg}]
    /\ \E T \in fanout_choices(known_peers[n] \ excluded(f)) :
          inflight' = (inflight \ {f}) \cup
              IF f.ttl_hops = 0 THEN {}
              ELSE copies(f.msg, n, T, f.ttl_hops, f.hops + 1)
    /\ UNCHANGED <<running, known_peers, cached, expired, sent, churn>>

\* send_response, by a node whose QueryReceived event the application took.
send_response(n, m) ==
    /\ n \in running
    /\ m \in told[n]
    /\ inflight' = inflight \cup
          {[kind |-> "response", msg |-> m, from |-> n, to |-> Origin[m],
            ttl_hops |-> 0, hops |-> 1]}
    /\ UNCHANGED <<running, known_peers, seen_vars, cached, expired, sent, told, churn>>

\* A response marks the query's id as seen and is never forwarded.
handle_response(f) ==
    /\ f \in inflight /\ f.kind = "response"
    /\ f.to \in running
    /\ Len(seen_order[f.to]) < MaxQueue
    /\ mark_seen(f.to, f.msg) /\ note(f.to, {})
    /\ inflight' = inflight \ {f}
    /\ UNCHANGED <<running, known_peers, cached, expired, sent, told, churn>>

-----------------------------------------------------------------------------
start_stop(n) ==
    /\ churn < MaxChurn /\ churn' = churn + 1
    /\ running' = IF n \in running THEN running \ {n} ELSE running \cup {n}
    /\ UNCHANGED <<known_peers, seen_vars, cached, expired, sent, inflight, told>>

add_peer(n, p) ==
    /\ churn < MaxChurn /\ churn' = churn + 1
    /\ p # n
    /\ known_peers' = [known_peers EXCEPT ![n] = @ \cup {p}]
    /\ UNCHANGED <<running, seen_vars, cached, expired, sent, inflight, told>>

\* Removing a peer also drops the announcements it originated.
remove_peer(n, p) ==
    /\ churn < MaxChurn /\ churn' = churn + 1
    /\ known_peers' = [known_peers EXCEPT ![n] = @ \ {p}]
    /\ cached' = [cached EXCEPT ![n] = {m \in @ : Origin[m] # p}]
    /\ UNCHANGED <<running, seen_vars, expired, sent, inflight, told>>

expire(m) == /\ m \in sent /\ expired' = expired \cup {m}
             /\ UNCHANGED <<running, known_peers, seen_vars, cached, sent, inflight, told, churn>>

\* cleanup: the ids past seen_cache_ttl go, those marked longest ago; and of the cached
\* announcements the expired ones and those past announcement_cache_ttl.
marked_before(n, x, y) ==
    \E j \in DOMAIN seen_order[n] :
        /\ seen_order[n][j] = y
        /\ \A i \in DOMAIN seen_order[n] : seen_order[n][i] = x => i < j

cleanup(n, old, kept) ==
    /\ old \subseteq seen[n] /\ kept \subseteq cached[n] \ expired
    /\ \A x \in old, y \in seen[n] \ old : marked_before(n, x, y)
    /\ seen' = [seen EXCEPT ![n] = @ \ old]
    /\ seen_order' = [seen_order EXCEPT ![n] = SelectSeq(@, LAMBDA id : id \in seen[n] \ old)]
    /\ note(n, {})
    /\ cached' = [cached EXCEPT ![n] = kept]
    /\ UNCHANGED <<running, known_peers, expired, sent, inflight, told, churn>>

-----------------------------------------------------------------------------
Init == /\ running = Nodes
        /\ known_peers = [n \in Nodes |-> {p \in Nodes : <<n, p>> \in Links}]
        /\ seen = [n \in Nodes |-> {}] /\ seen_order = [n \in Nodes |-> <<>>]
        /\ cached = [n \in Nodes |-> {}]
        /\ expired = {} /\ sent = {} /\ inflight = {}
        /\ told = [n \in Nodes |-> {}]
        /\ handled = [n \in Nodes |-> [m \in Messages |-> 0]]
        /\ churn = 0

Handle(f) == handle_announce(f) \/ handle_query(f) \/ handle_response(f)

Next == \/ \E m \in Messages : prepare_announce(m) \/ prepare_query(m)
        \/ \E f \in inflight : Handle(f) \/ refuse(f)
        \/ \E n \in Nodes, m \in Messages : send_response(n, m)
        \/ \E n \in Nodes : \E old \in SUBSET seen[n], kept \in SUBSET cached[n] : cleanup(n, old, kept)
        \/ \E n \in Nodes : start_stop(n)
        \/ \E n, p \in Nodes : add_peer(n, p) \/ remove_peer(n, p)
        \/ \E m \in Announces : expire(m)

Spec == Init /\ [][Next]_vars

\* A stable network: nobody leaves, no message is lost or rate limited, nothing
\* expires before the broadcast is over; duplicates are dropped and every message
\* on its way arrives.
StableNext ==
    \/ \E m \in Messages : prepare_announce(m) \/ prepare_query(m)
    \/ \E f \in inflight : Handle(f) \/ (duplicate(f) /\ refuse(f))

Arrive == \E f \in inflight : Handle(f) \/ (duplicate(f) /\ refuse(f))

StableFairness == WF_vars(Arrive)

StableSpec == Init /\ [][StableNext]_vars /\ StableFairness

-----------------------------------------------------------------------------
\* As long as a node remembers a message's id it takes the message for new once,
\* its own announcement included.
OncePerMemory == \A n \in Nodes, m \in Messages : handled[n][m] <= 1

\* "so we don't process our own query" (node.rs:342): although prepare_query
\* does not mark the query as seen, it never comes back to its origin.
OwnQueryNeverReturns ==
    \A f \in inflight : f.kind = "query" => f.to # Origin[f.msg]

\* handle_announce, handle_query and prepare_announce: a node takes a message for new once,
\* however many copies arrive and whatever peers come and go, until it forgets the id:
\* mark_seen evicts it or cleanup drops it, and then a copy still on its way is handled and
\* forwarded again.  And whatever has been forgotten, a query never comes back to its
\* origin, which has not marked it as seen.
HandledOnce == OncePerMemory /\ OwnQueryNeverReturns

\* In a stable network in which the fanout covers every node's peers, an
\* announcement reaches the cache of every node its origin is connected to.
Neighbours(S) == S \cup {p \in Nodes : \E n \in S : <<n, p>> \in Links}
Reach(m) == Neighbours(Neighbours(Neighbours({Origin[m]})))
ReachesEveryone ==
    \A m \in Announces : m \in sent ~> \A n \in Reach(m) : m \in cached[n]

\* In a stable network a broadcast dies out, although no forwarding node ever
\* lowers ttl_hops (node.rs:281): deduplication alone has to stop it.
DiesOut == <>[](inflight = {})

\* "Maximum number of hops a message can travel." (broadcast.rs:15)
HopsBounded == \A f \in inflight : f.hops <= max_ttl_hops + 1
=============================================================================
