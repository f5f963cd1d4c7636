---------------------------- MODULE GossipLimits ----------------------------
(***************************************************************************)
(* The two bounded caches of one GossipBroadcaster,                        *)
(* crates/molt-p2p/src/gossip/broadcast.rs: the ids of messages seen, and  *)
(* the announcements, each with a queue that gives the order of eviction.  *)
(***************************************************************************)
EXTENDS Integers, FiniteSets, SequencesExt

CONSTANTS Ids,                         \* message ids
          RespondedIds,                \* ids of own queries, for which responses come
          Peers,                       \* announcing and sending peers
          Stamps,                      \* values of created_at
          max_seen_cache,
          max_announcements_per_peer,
          max_total_announcements,
          MaxSeq                       \* bound on next_announcement_seq

VARIABLES seen_messages,          \* ids in the map
          seen_order,             \* queue of ids
          announcement_cache,     \* entries of each peer, oldest first
          announcement_order,     \* queue of keys
          next_announcement_seq

cache_vars == <<seen_messages, seen_order, announcement_cache, announcement_order,
                next_announcement_seq>>

Key   == [peer : Peers, seq : 0 .. MaxSeq]
Entry == [created_at : Stamps, key : Key]

CacheTypeOK == /\ seen_messages \subseteq Ids
               /\ seen_order \in Seq(Ids)
               /\ announcement_cache \in [Peers -> Seq(Entry)]
               /\ announcement_order \in Seq(Key)
               /\ next_announcement_seq \in 0 .. MaxSeq

keys(cache) == UNION {{e.key : e \in ToSet(cache[p])} : p \in Peers}

cached_announcement_count(cache) == Cardinality(keys(cache))

\* Vec::retain / VecDeque::retain
without_keys(cache, ks) ==
    [p \in Peers |-> SelectSeq(cache[p], LAMBDA e : e.key \notin ks)]
drop_keys(order, ks) == SelectSeq(order, LAMBDA k : k \notin ks)

-----------------------------------------------------------------------------
\* mark_seen: at capacity the front of the queue goes, then the id is added to
\* the map and to the back of the queue, whether or not it is there already.
after_eviction_from_queue_only(seen, order) ==
    IF Cardinality(seen) >= max_seen_cache /\ order # <<>>
    THEN <<seen, Tail(order)>>
    ELSE <<seen, order>>

after_eviction_from_map_only(seen, order) ==
    IF Cardinality(seen) >= max_seen_cache /\ order # <<>>
    THEN <<seen \ {Head(order)}, order>>
    ELSE <<seen, order>>

after_eviction(seen, order) ==
    IF Cardinality(seen) >= max_seen_cache /\ order # <<>>
    THEN <<seen \ {Head(order)}, Tail(order)>>
    ELSE <<seen, order>>

mark_seen(id) ==
    LET ev == after_eviction(seen_messages, seen_order)
    IN  /\ seen_messages' = ev[1] \cup {id}
        /\ seen_order' = Append(ev[2], id)

\* A query is marked only when it is not a duplicate; a response always is.
handle_query(id) ==
    /\ id \notin seen_messages
    /\ mark_seen(id)
    /\ UNCHANGED <<announcement_cache, announcement_order, next_announcement_seq>>

handle_response(id) ==
    /\ id \in RespondedIds
    /\ Len(seen_order) <= 2 * max_seen_cache
    /\ mark_seen(id)
    /\ UNCHANGED <<announcement_cache, announcement_order, next_announcement_seq>>

-----------------------------------------------------------------------------
\* The first keys of the queue that have to go to make room for one entry:
\* none, or as few as bring the count below the limit, or all there are.
oldest_until_room(cache, order) ==
    LET fits(n) == cached_announcement_count(
                      without_keys(cache, ToSet(SubSeq(order, 1, n))))
                        < max_total_announcements
        enough == {n \in 0 .. Len(order) : fits(n)}
    IN  IF enough = {} THEN Len(order) ELSE Min(enough)

\* wrapping_add(1), far from the width of u64.
next_seq(seq) == seq + 1

\* Entries of the same peer with the same created_at are replaced.
same_stamp_keys_kept(cache, peer, stamp) == {}

same_stamp_keys(cache, peer, stamp) ==
    {e.key : e \in {x \in ToSet(cache[peer]) : x.created_at = stamp}}

\* The last max_announcements_per_peer entries stay.
trimmed_keys(entries) ==
    {entries[i].key : i \in 1 .. (Len(entries) - max_announcements_per_peer)}

trim_order_nothing(order, ks) == order

trim_order(order, ks) == drop_keys(order, ks)

cache_announcement(peer, stamp) ==
    LET key   == [peer |-> peer, seq |-> next_announcement_seq]
        old   == same_stamp_keys(announcement_cache, peer, stamp)
        c1    == without_keys(announcement_cache, old)
        o1    == drop_keys(announcement_order, old)
        n     == oldest_until_room(c1, o1)
        c2    == without_keys(c1, ToSet(SubSeq(o1, 1, n)))
        o2    == SubSeq(o1, n + 1, Len(o1))
        c3    == [c2 EXCEPT ![peer] = Append(@, [created_at |-> stamp, key |-> key])]
        o3    == Append(o2, key)
        trim  == trimmed_keys(c3[peer])
    IN  /\ next_announcement_seq < MaxSeq
        /\ next_announcement_seq' = next_seq(next_announcement_seq)
        /\ announcement_cache' = without_keys(c3, trim)
        /\ announcement_order' = trim_order(o3, trim)

\* prepare_announce for this node's own, handle_announce for one received
\* that is not a duplicate.
handle_announce(id, peer, stamp) ==
    /\ id \notin seen_messages
    /\ mark_seen(id)
    /\ cache_announcement(peer, stamp)

\* cleanup: the ids marked longest ago go, and any entries, for each has a ttl
\* of its own.  handle_message runs it first when the interval has passed.
LastMark(id) == Max({i \in DOMAIN seen_order : seen_order[i] = id})

cleanup(old, gone) ==
    /\ old \cup gone # {}
    /\ \A x \in old, y \in seen_messages \ old : LastMark(x) < LastMark(y)
    /\ seen_messages' = seen_messages \ old
    /\ seen_order' = SelectSeq(seen_order, LAMBDA id : id \in seen_messages')
    /\ announcement_cache' = without_keys(announcement_cache, gone)
    /\ announcement_order' = drop_keys(announcement_order, gone)
    /\ UNCHANGED next_announcement_seq

remove_peer(p) ==
    /\ announcement_cache' = [announcement_cache EXCEPT ![p] = <<>>]
    /\ announcement_order' = SelectSeq(announcement_order, LAMBDA k : k.peer # p)
    /\ UNCHANGED <<seen_messages, seen_order, next_announcement_seq>>

CacheInit == /\ seen_messages = {} /\ seen_order = <<>>
             /\ announcement_cache = [p \in Peers |-> <<>>]
             /\ announcement_order = <<>>
             /\ next_announcement_seq = 0

CacheNext == \/ \E id \in Ids : handle_query(id) \/ handle_response(id)
             \/ \E id \in Ids, p \in Peers, s \in Stamps : handle_announce(id, p, s)
             \/ \E old \in SUBSET seen_messages, gone \in SUBSET keys(announcement_cache) :
                   cleanup(old, gone)
             \/ \E p \in Peers : remove_peer(p)

CacheSpec == CacheInit /\ [][CacheNext]_cache_vars

-----------------------------------------------------------------------------
\* The eviction queue lists exactly the cached announcements, once each and
\* from the oldest: eviction never runs dry while the cache is full
\* ("shouldn't happen", broadcast.rs:535) and never skips an entry.
OrderListsCache ==
    /\ ToSet(announcement_order) = keys(announcement_cache)
    /\ \A i, j \in DOMAIN announcement_order :
          i < j => announcement_order[i].seq < announcement_order[j].seq

\* "Maximum total announcements across all peers" (broadcast.rs:25) and
\* "Maximum announcements to cache per peer." (broadcast.rs:23): neither limit
\* is passed, and one peer never has two entries with one created_at.
CacheWithinLimits ==
    /\ cached_announcement_count(announcement_cache) <= max_total_announcements
    /\ \A p \in Peers :
          /\ Len(announcement_cache[p]) <= max_announcements_per_peer
          /\ \A i, j \in DOMAIN announcement_cache[p] :
                announcement_cache[p][i].created_at = announcement_cache[p][j].created_at
                    => i = j

\* "Maximum number of seen message IDs to cache." (broadcast.rs:19)
SeenWithinLimit == Cardinality(seen_messages) <= max_seen_cache

\* Every id in the map is in the queue, responses or not: no id escapes
\* eviction.
SeenIsQueued == seen_messages \subseteq ToSet(seen_order)

\* Without responses, the queue of seen ids lists exactly the ids in the map,
\* so that what is evicted at the limit is the id that came first.
SeenOrderListsSeen ==
    /\ ToSet(seen_order) = seen_messages
    /\ Len(seen_order) = Cardinality(seen_messages)

-----------------------------------------------------------------------------
(***************************************************************************)
(* The sliding-window rate limiter that every received gossip message      *)
(* passes, crates/molt-p2p/src/gossip/rate_limit.rs, with limiting         *)
(* enabled.  Instants are ticks.                                           *)
(***************************************************************************)
CONSTANTS max_messages_per_window, window_duration,
          violations_before_ban, ban_duration,
          CLEANUP_INTERVAL,   \* maybe_cleanup's ten seconds
          MaxTime             \* bound on the clock

VARIABLES now,
          peer_states,    \* RateLimiter::peer_states, a function on known peers
          last_cleanup,
          allowed,        \* history: times of the messages allowed since the peer
                          \* was last unbanned or forgotten by hand
          outlawed        \* history: peers banned by hand and not heard since

limiter_vars == <<now, peer_states, last_cleanup, allowed, outlawed>>

\* PeerRateState::new; banned_until holds at most one instant.
Fresh == [message_times |-> <<>>, violation_count |-> 0, banned_until |-> {}]

LimiterTypeOK == /\ now \in 0 .. MaxTime
                 /\ DOMAIN peer_states \subseteq Peers
                 /\ \A p \in DOMAIN peer_states :
                       /\ peer_states[p].message_times \in Seq(0 .. MaxTime)
                       /\ peer_states[p].violation_count \in 0 .. violations_before_ban
                       /\ peer_states[p].banned_until \in SUBSET (0 .. MaxTime + ban_duration)
                 /\ last_cleanup \in 0 .. MaxTime
                 /\ allowed \in [Peers -> Seq(0 .. MaxTime)]
                 /\ outlawed \subseteq Peers

banned(st) == \E until \in st.banned_until : now < until

state_of(ps, p) == IF p \in DOMAIN ps THEN ps[p] ELSE Fresh

Put(f, k, v) == [x \in DOMAIN f \cup {k} |-> IF x = k THEN v ELSE f[x]]

\* now - window_duration; the window includes its first instant.
in_window(t) == t + window_duration >= now

recent(times) == SelectSeq(times, in_window)

-----------------------------------------------------------------------------
\* cleanup keeps a peer that is banned, has recent messages or has violations.
cleaned(ps) ==
    LET pruned(p) == IF banned(ps[p]) THEN ps[p]
                     ELSE [ps[p] EXCEPT !.message_times = recent(@)]
        kept == {p \in DOMAIN ps : \/ banned(ps[p])
                                   \/ recent(ps[p].message_times) # <<>>
                                   \/ ps[p].violation_count > 0}
    IN  [p \in kept |-> pruned(p)]

cleanup_due == now - last_cleanup >= CLEANUP_INTERVAL

after_maybe_cleanup == IF cleanup_due THEN cleaned(peer_states) ELSE peer_states

\* An expired ban clears the peer's history.
after_ban_expiry_keeps_violations(st) ==
    IF st.banned_until = {} THEN st ELSE [st EXCEPT !.banned_until = {}]

after_ban_expiry(st) == IF st.banned_until = {} THEN st ELSE Fresh

\* Over the limit: one more violation, and a ban when they are too many.
with_violation_never_bans(st) == [st EXCEPT !.violation_count = @ + 1]

with_violation(st) ==
    LET n == st.violation_count + 1
    IN  [st EXCEPT !.violation_count = n,
                   !.banned_until = IF n >= violations_before_ban
                                    THEN {now + ban_duration} ELSE @]

over_limit_by_one(st) == Len(st.message_times) > max_messages_per_window

over_limit(st) == Len(st.message_times) >= max_messages_per_window

\* The new state of the sender, and whether its message is allowed.
verdict_extends_ban(st) ==
    IF banned(st) THEN [state |-> [st EXCEPT !.banned_until = {now + ban_duration}],
                        allow |-> FALSE]
    ELSE LET s1 == after_ban_expiry(st)
             s2 == [s1 EXCEPT !.message_times = recent(@)]
         IN  IF over_limit(s2) THEN [state |-> with_violation(s2), allow |-> FALSE]
             ELSE [state |-> [s2 EXCEPT !.message_times = Append(@, now)], allow |-> TRUE]

verdict(st) ==
    IF banned(st) THEN [state |-> st, allow |-> FALSE]
    ELSE LET s1 == after_ban_expiry(st)
             s2 == [s1 EXCEPT !.message_times = recent(@)]
         IN  IF over_limit(s2) THEN [state |-> with_violation(s2), allow |-> FALSE]
             ELSE [state |-> [s2 EXCEPT !.message_times = Append(@, now)], allow |-> TRUE]

check_and_record(p) ==
    LET ps == after_maybe_cleanup
        v  == verdict(state_of(ps, p))
    IN  /\ peer_states' = Put(ps, p, v.state)
        /\ last_cleanup' = IF cleanup_due THEN now ELSE last_cleanup
        /\ allowed' = IF v.allow THEN [allowed EXCEPT ![p] = Append(recent(@), now)]
                      ELSE allowed
        /\ outlawed' = IF v.allow THEN outlawed \ {p} ELSE outlawed
        /\ UNCHANGED now

ban_peer(p) ==
    /\ peer_states' = Put(peer_states, p,
          [state_of(peer_states, p) EXCEPT !.banned_until = {now + ban_duration}])
    /\ outlawed' = outlawed \cup {p}
    /\ UNCHANGED <<now, last_cleanup, allowed>>

unban_peer(p) == /\ p \in DOMAIN peer_states
                 /\ peer_states' = [peer_states EXCEPT ![p] = Fresh]
                 /\ outlawed' = outlawed \ {p}
                 /\ allowed' = [allowed EXCEPT ![p] = <<>>]
                 /\ UNCHANGED <<now, last_cleanup>>

forget_peer(p) == /\ p \in DOMAIN peer_states
                  /\ peer_states' = [q \in DOMAIN peer_states \ {p} |-> peer_states[q]]
                  /\ outlawed' = outlawed \ {p}
                  /\ allowed' = [allowed EXCEPT ![p] = <<>>]
                  /\ UNCHANGED <<now, last_cleanup>>

Tick == /\ now < MaxTime
        /\ now' = now + 1
        /\ UNCHANGED <<peer_states, last_cleanup, allowed, outlawed>>

LimiterInit == /\ now = 0 /\ peer_states = <<>> /\ last_cleanup = 0
               /\ allowed = [p \in Peers |-> <<>>] /\ outlawed = {}

LimiterNext == \/ Tick
               \/ \E p \in Peers : check_and_record(p) \/ ban_peer(p) \/ unban_peer(p) \/ forget_peer(p)

LimiterSpec == LimiterInit /\ [][LimiterNext]_limiter_vars

-----------------------------------------------------------------------------
\* Through cleanups, bans and ban expiries, each of which forgets messages, a
\* peer that nobody pardoned by hand never has more than
\* max_messages_per_window messages allowed within one window, when a ban
\* outlasts the window.
WindowLimitHolds ==
    \A p \in Peers : Len(recent(allowed[p])) <= max_messages_per_window

\* However much a banned peer sends, it does not prolong its ban: unless it was
\* banned by hand, it is let in again no later than one window and one ban
\* after the last message it was allowed.
BanIsBounded ==
    \A p \in DOMAIN peer_states \ outlawed :
        \A until \in peer_states[p].banned_until :
            until <= Last(allowed[p]) + window_duration + ban_duration

\* A peer whose violations have reached the threshold is banned, or its ban has
\* run out and its next message clears its record; no cleanup or manual ban
\* leaves such a peer free with its violations standing.
ThresholdBans ==
    \A p \in DOMAIN peer_states :
        peer_states[p].violation_count >= violations_before_ban
            => peer_states[p].banned_until # {}
=============================================================================
