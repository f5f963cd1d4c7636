--------------------------- MODULE GossipExchange ---------------------------
(***************************************************************************)
(* What gossip nodes say to each other beyond the broadcast itself, in two *)
(* parts that share no variable: queries with their answers, and the       *)
(* frames on the wire between releases.                                    *)
(***************************************************************************)
(***************************************************************************)
(* Questions and answers between gossip nodes: LocalGossipNode in          *)
(* crates/molt-p2p/src/gossip/node.rs with the announcements each has      *)
(* cached, the queues of sends and events its embedder empties, and its    *)
(* own clock.  The embedder answers each query it is told of from its      *)
(* cache.  Every node knows every other, fanout covers them all, and the   *)
(* caches are far from their limits (GossipLimits has those).              *)
(***************************************************************************)
EXTENDS Naturals, Sequences, SequencesExt, FiniteSets

CONSTANTS Nodes,
          Skew,       \* Skew[n]: how far n's clock is ahead
          Offers,     \* what nodes announce: [gpus, job_types, gpu_hour_cents, ttl]
          Filters,    \* QueryFilters; an Option is a set of at most one element
          Limits,     \* values of max_results
          max_ttl_hops,
          MaxAnnounces, MaxQueries, MaxStops, MaxTime   \* bounds

VARIABLES clock,
          can_process,    \* can_process[n]: NodeState is Running or Syncing
          seen,           \* seen[n]: message ids
          cache,          \* cache[n][p]: announcements of p, oldest first
          pending_sends,  \* pending_sends[n]: <<peer, message>>
          pending_events,
          net,            \* packets taken from pending_sends
          ids,            \* message ids given out
          asked,          \* history: asked[id], the queries
          stops           \* history: calls of stop

answer_vars == <<clock, can_process, seen, cache, pending_sends, pending_events, net, ids, asked, stops>>

now(n) == clock + Skew[n]
known_peers(n) == Nodes \ {n}

\* An announcement from a clock ahead of this one has no age: it is taken as expired.
is_expired(x, n) == now(n) < x.created_at \/ now(n) - x.created_at > x.ttl

\* Variant: one GPU is to have every property asked for.
matches_one_gpu(x, f) ==
    /\ \E g \in x.gpus : /\ \A model \in f.gpu_model : g.model = model
                         /\ \A vram \in f.min_vram_gb : g.vram_gb > vram
    /\ f.job_type \subseteq x.job_types
    /\ \A cents \in f.max_gpu_hour_cents : x.gpu_hour_cents <= cents

\* Each criterion by itself: different GPUs may meet them.
matches_filter(x, f) ==
    /\ \A model \in f.gpu_model : \E g \in x.gpus : g.model = model
    /\ \A vram \in f.min_vram_gb : \E g \in x.gpus : g.vram_gb >= vram
    /\ f.job_type \subseteq x.job_types
    /\ \A cents \in f.max_gpu_hour_cents : x.gpu_hour_cents <= cents

-----------------------------------------------------------------------------
\* The map of peers is gone through in no particular order, a peer's announcements from
\* the oldest; the walk stops once max_results are found, and never before the first.
hits(n, f, peers) ==
    FlattenSeq([i \in DOMAIN peers |->
                   SelectSeq(cache[n][peers[i]], LAMBDA x : ~ is_expired(x, n) /\ matches_filter(x, f))])

query_cache(n, f, max_results, peers) ==
    LET found == hits(n, f, peers)
        most  == IF max_results > 1 THEN max_results ELSE 1
    IN  SubSeq(found, 1, IF Len(found) < most THEN Len(found) ELSE most)

cache_announcement(n, x) ==
    cache' = [cache EXCEPT ![n][x.peer] = Append(SelectSeq(@, LAMBDA y : y.created_at # x.created_at), x)]

queue_sends(n, peers, m) ==
    pending_sends' = [pending_sends EXCEPT ![n] = @ \o [i \in DOMAIN peers |-> <<peers[i], m>>]]

emit(n, e) == pending_events' = [pending_events EXCEPT ![n] = Append(@, e)]

mark_seen(n, id) == seen' = [seen EXCEPT ![n] = @ \cup {id}]

-----------------------------------------------------------------------------
prepare_announce(n, offer, peers) ==
    LET x == [peer |-> n, gpus |-> offer.gpus, job_types |-> offer.job_types,
              gpu_hour_cents |-> offer.gpu_hour_cents, ttl |-> offer.ttl, created_at |-> now(n)]
    IN  /\ can_process[n] /\ ids - Len(asked) < MaxAnnounces
        /\ ids' = ids + 1
        /\ mark_seen(n, ids') /\ cache_announcement(n, x)
        /\ queue_sends(n, peers, [kind |-> "Announce", id |-> ids', announcement |-> x,
                                  ttl_hops |-> max_ttl_hops])
        /\ UNCHANGED <<clock, can_process, pending_events, net, asked, stops>>

\* The node's own query is not marked as seen.
prepare_query(n, f, max, peers) ==
    /\ can_process[n] /\ Len(asked) < MaxQueries
    /\ ids' = ids + 1 /\ asked' = Append(asked, [id |-> ids', from |-> n, filter |-> f])
    /\ queue_sends(n, peers, [kind |-> "Query", id |-> ids', from_peer |-> n, filter |-> f,
                              max_results |-> max, ttl_hops |-> max_ttl_hops])
    /\ UNCHANGED <<clock, can_process, seen, cache, pending_events, net, stops>>

take_pending_send(n) ==
    /\ pending_sends[n] # <<>>
    /\ net' = net \cup {<<n, Head(pending_sends[n])>>}
    /\ pending_sends' = [pending_sends EXCEPT ![n] = Tail(@)]
    /\ UNCHANGED <<clock, can_process, seen, cache, pending_events, ids, asked, stops>>

\* A duplicate is dropped; without hops left an announcement is cached whether or not it
\* has expired, and with hops left an expired one is refused and not marked.
handle_announce(n, from, m, peers) ==
    \/ /\ m.id \in seen[n] \/ (m.ttl_hops > 0 /\ is_expired(m.announcement, n))
       /\ UNCHANGED <<seen, cache, pending_sends, pending_events>>
    \/ /\ m.id \notin seen[n] /\ (m.ttl_hops = 0 \/ ~ is_expired(m.announcement, n))
       /\ mark_seen(n, m.id) /\ cache_announcement(n, m.announcement)
       /\ emit(n, [kind |-> "AnnouncementReceived", announcement |-> m.announcement])
       /\ queue_sends(n, IF m.ttl_hops = 0 THEN <<>> ELSE SelectSeq(peers, LAMBDA p : p # from), m)

\* The event does not carry max_results.
handle_query(n, from, m, peers) ==
    \/ m.id \in seen[n] /\ UNCHANGED <<seen, cache, pending_sends, pending_events>>
    \/ /\ m.id \notin seen[n]
       /\ mark_seen(n, m.id) /\ UNCHANGED cache
       /\ emit(n, [kind |-> "QueryReceived", id |-> m.id, from_peer |-> m.from_peer, filter |-> m.filter])
       /\ queue_sends(n, IF m.ttl_hops = 0 THEN <<>>
                         ELSE SelectSeq(peers, LAMBDA p : p \notin {from, m.from_peer}), m)

handle_response(n, m) ==
    /\ mark_seen(n, m.id) /\ emit(n, [m EXCEPT !.kind = "ResponseReceived"])
    /\ UNCHANGED <<cache, pending_sends>>

\* A node that cannot process refuses every message; a running one refuses those of a
\* sender over its rate or banned, and announcements whose signature does not verify.
\* A refused message leaves no mark.
refuse == UNCHANGED <<seen, cache, pending_sends, pending_events>>

handle_message(n, peers) ==
    \E packet \in net :
        LET from == packet[1]  m == packet[2][2] IN
        /\ packet[2][1] = n
        /\ net' = net \ {packet}
        /\ \/ refuse
           \/ /\ can_process[n]
              /\ \/ m.kind = "Announce" /\ handle_announce(n, from, m, peers)
                 \/ m.kind = "Query" /\ handle_query(n, from, m, peers)
                 \/ m.kind = "Response" /\ handle_response(n, m)
        /\ UNCHANGED <<clock, can_process, ids, asked, stops>>

\* at, of and limit are history: when the answer was made, from which announcements.
Response(n, e, found, max) ==
    [kind |-> "Response", id |-> e.id, from_peer |-> n, announcements |-> found, at |-> now(n),
     of |-> UNION {ToSet(cache[n][p]) : p \in Nodes}, limit |-> max]

\* Variant: the answer goes to the peer whose announcement is found.
send_response_to_provider(n, e, found, max) ==
    queue_sends(n, <<IF found = <<>> THEN e.from_peer ELSE found[1].peer>>, Response(n, e, found, max))

send_response(n, e, found, max) == queue_sends(n, <<e.from_peer>>, Response(n, e, found, max))

\* The embedder takes an event, and answers a query while the node runs.
take_pending_event(n, max, peers) ==
    /\ pending_events[n] # <<>>
    /\ LET e == Head(pending_events[n]) IN
       IF e.kind = "QueryReceived" /\ can_process[n]
       THEN send_response(n, e, query_cache(n, e.filter, max, peers), max)
       ELSE UNCHANGED pending_sends
    /\ pending_events' = [pending_events EXCEPT ![n] = Tail(@)]
    /\ UNCHANGED <<clock, can_process, seen, cache, net, ids, asked, stops>>

\* cleanup: expired announcements go.
tick(n) ==
    /\ cache' = [cache EXCEPT ![n] = [p \in Nodes |-> SelectSeq(@[p], LAMBDA x : ~ is_expired(x, n))]]
    /\ UNCHANGED <<clock, can_process, seen, pending_sends, pending_events, net, ids, asked, stops>>

stop(n) == /\ can_process[n] /\ stops < MaxStops /\ stops' = stops + 1
           /\ can_process' = [can_process EXCEPT ![n] = FALSE]
           /\ UNCHANGED <<clock, seen, cache, pending_sends, pending_events, net, ids, asked>>

start(n) == /\ ~ can_process[n]
            /\ can_process' = [can_process EXCEPT ![n] = TRUE]
            /\ UNCHANGED <<clock, seen, cache, pending_sends, pending_events, net, ids, asked, stops>>

pass == /\ clock < MaxTime /\ clock' = clock + 1
        /\ UNCHANGED <<can_process, seen, cache, pending_sends, pending_events, net, ids, asked, stops>>

-----------------------------------------------------------------------------
AnswerInit == /\ clock = 0 /\ can_process = [n \in Nodes |-> FALSE]
              /\ seen = [n \in Nodes |-> {}] /\ cache = [n \in Nodes |-> [p \in Nodes |-> <<>>]]
              /\ pending_sends = [n \in Nodes |-> <<>>] /\ pending_events = [n \in Nodes |-> <<>>]
              /\ net = {} /\ ids = 0 /\ asked = <<>> /\ stops = 0

AnswerNext == \/ pass
              \/ \E n \in Nodes : take_pending_send(n) \/ tick(n) \/ stop(n) \/ start(n)
              \/ \E n \in Nodes : \E peers \in SetToSeqs(known_peers(n)) :
                    \/ handle_message(n, peers)
                    \/ \E offer \in Offers : prepare_announce(n, offer, peers)
                    \/ \E f \in Filters, max \in Limits : prepare_query(n, f, max, peers)
              \/ \E n \in Nodes : \E peers \in SetToSeqs(Nodes), max \in Limits : take_pending_event(n, max, peers)

AnswerSpec == AnswerInit /\ [][AnswerNext]_answer_vars

-----------------------------------------------------------------------------
\* The announcements that, at a time, are neither old nor from the future and have the GPUs,
\* the job type and the price asked for.
Fitting(xs, f, t) ==
    {x \in xs : /\ t \in x.created_at .. x.created_at + x.ttl
                /\ f.gpu_model \subseteq {g.model : g \in x.gpus}
                /\ f.min_vram_gb = {} \/ \E g \in x.gpus : {v \in f.min_vram_gb : v > g.vram_gb} = {}
                /\ f.job_type \subseteq x.job_types
                /\ f.max_gpu_hour_cents = {} \/ {x.gpu_hour_cents} \cap 0 .. Max(f.max_gpu_hour_cents) # {}}

\* Every answer that reaches a node is to a question of its own; each announcement in it
\* fits the question and was fresh when the answer was made, none is there twice, and one
\* that fits is missing only where the answer is full.
AnswersFit ==
    \A n \in Nodes : \A i \in DOMAIN pending_events[n] :
        LET e == pending_events[n][i] IN
        e.kind = "ResponseReceived" =>
            \E q \in ToSet(asked) :
                LET fitting == Fitting(e.of, q.filter, e.at) IN
                /\ q.id = e.id /\ q.from = n
                /\ IsInjective(e.announcements) /\ ToSet(e.announcements) \subseteq fitting
                /\ ToSet(e.announcements) # fitting => Len(e.announcements) = Max({1, e.limit})

-----------------------------------------------------------------------------
(***************************************************************************)
(* Gossip messages on the wire, crates/molt-p2p/src/gossip/message.rs: a    *)
(* message is encoded with its type, its payload and a protocol version,    *)
(* and decoded by a peer that checks the version, its compatibility, the    *)
(* type and then the payload.  The peers may run different releases, so a   *)
(* frame can come from a later version with types of its own, and the       *)
(* carrier may cut a frame short.  A field that is missing decodes as zero, *)
(* a missing payload as the empty one; a frame cut within a field does not  *)
(* decode at all.                                                           *)
(***************************************************************************)
CONSTANTS
    CURRENT, MIN_COMPATIBLE, \* the version of this release and the oldest it reads
    Releases,                \* the versions of the releases that send
    Messages,                \* the messages, each with its kind
    MaxSent                  \* bound on the frames sent

VARIABLES
    frames,  \* frames under way: [sent, fields], the fields in their order
    taken    \* history: what the last frame was decoded as, with what had been sent

wire_vars == <<frames, taken>>

\* wire_types of a version; a later version adds one type of its own.
wire_types == [Announce |-> 1, Query |-> 2, Response |-> 3, Heartbeat |-> 4,
               SyncRequest |-> 5, SyncResponse |-> 6, Later |-> 7]

is_valid_message_type(version, t) == t \in 1 .. IF version = 1 THEN 6 ELSE 7

\* Variant: a frame without a version is read as one of the first version.
from_u32_or_first(v) == IF v = 0 THEN {1} ELSE IF v <= CURRENT THEN {v} ELSE {}

\* The versions this release knows by name.
from_u32(v) == IF v \in 1 .. CURRENT THEN {v} ELSE {}

is_compatible_with(v, w) == v >= MIN_COMPATIBLE /\ w >= MIN_COMPATIBLE

-----------------------------------------------------------------------------
WireInit == frames = {} /\ taken = {}

encode_wire_with_version(m, version) ==
    /\ Cardinality(frames) < MaxSent
    /\ is_valid_message_type(version, wire_types[m.kind])
    /\ frames' = frames \cup
           {[sent |-> [message |-> m, version |-> version],
             fields |-> <<[msg_type |-> wire_types[m.kind]], [payload |-> {m}],
                          [version |-> version]>>]}
    /\ UNCHANGED taken

\* The carrier delivers only the first fields of a frame.
cut(f, k) ==
    /\ frames' = (frames \ {f}) \cup {[f EXCEPT !.fields = SubSeq(@, 1, k)]}
    /\ UNCHANGED taken

decoded(fields) ==
    [msg_type |-> IF Len(fields) >= 1 THEN fields[1].msg_type ELSE 0,
     payload  |-> IF Len(fields) >= 2 THEN fields[2].payload ELSE {},
     version  |-> IF Len(fields) >= 3 THEN fields[3].version ELSE 0]

\* The messages a frame is taken for: one, or none when it is refused.
decode_wire_with_version(fields) ==
    LET w == decoded(fields)
    IN  {[message |-> m, version |-> v] :
            v \in {x \in from_u32(w.version) : /\ is_compatible_with(CURRENT, x)
                                               /\ is_valid_message_type(x, w.msg_type)},
            m \in w.payload}

decode(f) ==
    /\ frames' = frames \ {f}
    /\ taken' = {[sent |-> f.sent, whole |-> Len(f.fields) = 3,
                 got |-> decode_wire_with_version(f.fields)]}

WireNext ==
        \/ \E m \in Messages, v \in Releases : encode_wire_with_version(m, v)
        \/ \E f \in frames : decode(f) \/ \E k \in 0 .. Len(f.fields) - 1 : cut(f, k)

WireSpec == WireInit /\ [][WireNext]_wire_vars

-----------------------------------------------------------------------------
(***************************************************************************)
(* Peers of different releases understand each other or know that they do   *)
(* not (decode_wire): a frame is taken exactly when it arrived whole and    *)
(* its version is one this release reads, and then for the message and the  *)
(* version that were sent; a frame cut anywhere is refused, never taken for *)
(* a message of another version.                                            *)
(***************************************************************************)
TakenAsSent ==
    \A t \in taken :
        t.got = IF t.whole /\ t.sent.version \in MIN_COMPATIBLE .. CURRENT THEN {t.sent} ELSE {}
=============================================================================
