-------------------------- MODULE PeerConnections ---------------------------
(***************************************************************************)
(* Connections between peers, crates/molt-p2p/src/connection.rs, in two    *)
(* parts that share no variable: a channel with its two ends, and the      *)
(* health record one end keeps.                                            *)
(***************************************************************************)
(***************************************************************************)
(* Two peers and the channel between them, crates/molt-p2p/src/            *)
(* connection.rs: the state and the counts each end keeps, and a bounded   *)
(* queue in each direction.  An end is used by one call at a time          *)
(* (&mut self); a send waits while the queue is full, a receive while it   *)
(* is empty, and either wait ends when the other end is dropped.           *)
(***************************************************************************)
EXTENDS Naturals, Sequences, FiniteSets

CONSTANTS Buffer,      \* room in each queue, DEFAULT_CHANNEL_BUFFER
          MaxSent      \* bound on messages_sent of an end

VARIABLES ends,     \* ends[e]: the ActiveConnection of end e
          queues,   \* queues[e]: the messages on their way to e, numbered as sent
          waiting   \* waiting[e]: the call of end e that waits, "none" if none

link_vars == <<ends, queues, waiting>>

End == {1, 2}

Other(e) == 3 - e

States == {"Connecting", "Connected", "Disconnecting", "Disconnected", "Failed"}

LinkTypeOK == /\ ends \in [End -> [state : States, alive : BOOLEAN,
                                   messages_sent : 0..MaxSent, messages_received : 0..MaxSent]]
              /\ \A e \in End : queues[e] \in Seq(1..MaxSent) /\ Len(queues[e]) <= Buffer
              /\ waiting \in [End -> {"none", "send", "recv"}]

\* connected_pair: two ends, each marked connected.
LinkInit == /\ ends = [e \in End |-> [state |-> "Connected", alive |-> TRUE,
                                      messages_sent |-> 0, messages_received |-> 0]]
            /\ queues = [e \in End |-> <<>>]
            /\ waiting = [e \in End |-> "none"]

-----------------------------------------------------------------------------
end_is_usable(e) == ends[e].alive /\ ends[e].state = "Connected"

idle(e) == ends[e].alive /\ waiting[e] = "none"

counted_sent(h) == [h EXCEPT !.messages_sent = @ + 1]

counted_received(h) == [h EXCEPT !.messages_received = @ + 1]

\* A send on a usable end starts to wait for room.
send_begin(e) == /\ idle(e) /\ end_is_usable(e) /\ ends[e].messages_sent < MaxSent
                 /\ waiting' = [waiting EXCEPT ![e] = "send"]
                 /\ UNCHANGED <<ends, queues>>

\* Room: the message enters the queue and is counted.  Otherwise the receiver
\* is gone: an error, nothing is counted.
send_end(e) ==
    /\ waiting[e] = "send"
    /\ IF ends[Other(e)].alive
       THEN /\ Len(queues[Other(e)]) < Buffer
            /\ queues' = [queues EXCEPT ![Other(e)] = Append(@, ends[e].messages_sent + 1)]
            /\ ends' = [ends EXCEPT ![e] = counted_sent(@)]
       ELSE UNCHANGED <<ends, queues>>
    /\ waiting' = [waiting EXCEPT ![e] = "none"]

recv_begin(e) == /\ idle(e) /\ end_is_usable(e)
                 /\ waiting' = [waiting EXCEPT ![e] = "recv"]
                 /\ UNCHANGED <<ends, queues>>

\* What was sent before the other end was dropped is still delivered.
recv_end(e) ==
    /\ waiting[e] = "recv"
    /\ \/ /\ queues[e] # <<>>
          /\ queues' = [queues EXCEPT ![e] = Tail(@)]
          /\ ends' = [ends EXCEPT ![e] = counted_received(@)]
       \/ queues[e] = <<>> /\ ~ ends[Other(e)].alive /\ UNCHANGED <<ends, queues>>
    /\ waiting' = [waiting EXCEPT ![e] = "none"]

\* Variant: a message taken without waiting is not counted.
try_recv_uncounted(e) == /\ idle(e) /\ end_is_usable(e) /\ queues[e] # <<>>
                         /\ queues' = [queues EXCEPT ![e] = Tail(@)]
                         /\ UNCHANGED <<ends, waiting>>

try_recv(e) == /\ idle(e) /\ end_is_usable(e) /\ queues[e] # <<>>
               /\ queues' = [queues EXCEPT ![e] = Tail(@)]
               /\ ends' = [ends EXCEPT ![e] = counted_received(@)]
               /\ UNCHANGED waiting

\* The caller drops a call that waits: nothing was taken or counted.
give_up(e) == /\ waiting[e] # "none"
              /\ waiting' = [waiting EXCEPT ![e] = "none"]
              /\ UNCHANGED <<ends, queues>>

\* mark_connected, mark_disconnecting, mark_disconnected and mark_failed.
mark_end(e, s) == /\ idle(e)
                  /\ s = "Disconnecting" => ends[e].state = "Connected"
                  /\ ends' = [ends EXCEPT ![e].state = s]
                  /\ UNCHANGED <<queues, waiting>>

\* The owner drops an end: what it had not received is lost.
drop(e) == /\ idle(e)
           /\ ends' = [ends EXCEPT ![e].alive = FALSE]
           /\ queues' = [queues EXCEPT ![e] = <<>>]
           /\ UNCHANGED waiting

LinkNext == \E e \in End : \/ send_begin(e) \/ send_end(e) \/ recv_begin(e) \/ recv_end(e)
                           \/ try_recv(e) \/ give_up(e) \/ drop(e)
                           \/ \E s \in States \ {"Connecting"} : mark_end(e, s)

Fairness == \A e \in End : WF_link_vars(send_end(e)) /\ WF_link_vars(recv_end(e))

LinkSpec == LinkInit /\ [][LinkNext]_link_vars /\ Fairness

-----------------------------------------------------------------------------
\* What one end counts as sent, the other end, as long as it lives, has counted
\* as received or still has before it, in the order sent: no call dropped while
\* it waits, no change of state and no full queue loses or doubles a message
\* (ActiveConnection::send, recv and try_recv count after the channel acted).
CountsAgree ==
    \A e \in End : ends[e].alive =>
        LET got == ends[e].messages_received
        IN  queues[e] = [i \in 1..(ends[Other(e)].messages_sent - got) |-> got + i]

\* A call that waits comes to an end once the other end is dropped: it is never
\* left waiting for a peer that is gone.
NoWaitForTheGone ==
    \A e \in End : [](~ ends[Other(e)].alive => <>(waiting[e] = "none"))

-----------------------------------------------------------------------------
(***************************************************************************)
(* The health of one peer connection and what the pool makes of it,         *)
(* crates/molt-p2p/src/connection.rs: pings that succeed and fail, messages *)
(* sent and received, the time the peer was last seen, and the test         *)
(* is_healthy by which unhealthy_connections picks the usable connections   *)
(* that should go.  The time is the wall clock, which may be set.           *)
(***************************************************************************)
CONSTANTS
    max_silence, \* the longest a healthy peer may be silent
    MaxPings,    \* bound on the pings counted
    MaxMessages, \* bound on the messages counted
    MaxTime      \* bound on the clock

ASSUME SilenceAssumption == max_silence \in Nat

VARIABLES
    state,          \* PeerConnection::state
    health,         \* ConnectionHealth
    established_at, \* an Option
    silence,        \* history: time passed since the peer was heard or written to
    set_back,       \* history: how far the clock was set back since then
    outcomes,       \* history: how many pings were answered and how many lost
    now

health_vars == <<state, health, established_at, silence, set_back, outcomes, now>>

is_usable == state = "Connected"

\* ping_success_rate() > 0.5; with no pings yet the rate is 1.
good_rate(h) == \/ h.successful_pings + h.failed_pings = 0
                \/ 2 * h.successful_pings > h.successful_pings + h.failed_pings

\* A last_seen in the future counts as silence without end.
is_healthy(h) ==
    /\ h.last_seen <= now
    /\ now - h.last_seen < max_silence
    /\ good_rate(h)

unhealthy == is_usable /\ ~is_healthy(health)

-----------------------------------------------------------------------------
HealthInit ==
          /\ state = "Connecting" /\ established_at = {} /\ now = 0
          /\ health = [successful_pings |-> 0, failed_pings |-> 0, last_seen |-> 0,
                       messages_sent |-> 0, messages_received |-> 0]
          /\ silence = 0 /\ set_back = 0 /\ outcomes = [answered |-> 0, lost |-> 0]

Seen == silence' = 0 /\ set_back' = 0

\* Variant: a lost ping too counts as having seen the peer.
ping_failure_seen(h) == [h EXCEPT !.failed_pings = @ + 1, !.last_seen = now]

ping_failure(h) == [h EXCEPT !.failed_pings = @ + 1]

record_ping_success ==
    /\ health.successful_pings < MaxPings
    /\ health' = [health EXCEPT !.successful_pings = @ + 1, !.last_seen = now]
    /\ Seen
    /\ outcomes' = [outcomes EXCEPT !.answered = @ + 1]
    /\ UNCHANGED <<state, established_at, now>>

record_ping_failure ==
    /\ health.failed_pings < MaxPings
    /\ health' = ping_failure(health)
    /\ outcomes' = [outcomes EXCEPT !.lost = @ + 1]
    /\ UNCHANGED <<state, established_at, silence, set_back, now>>

record_message_sent ==
    /\ health.messages_sent < MaxMessages
    /\ health' = [health EXCEPT !.messages_sent = @ + 1, !.last_seen = now]
    /\ Seen
    /\ UNCHANGED <<state, established_at, outcomes, now>>

record_message_received ==
    /\ health.messages_received < MaxMessages
    /\ health' = [health EXCEPT !.messages_received = @ + 1, !.last_seen = now]
    /\ Seen
    /\ UNCHANGED <<state, established_at, outcomes, now>>

mark_connected ==
    /\ state' = "Connected"
    /\ established_at' = {now}
    /\ UNCHANGED <<health, silence, set_back, outcomes, now>>

mark_disconnecting ==
    /\ state = "Connected"
    /\ state' = "Disconnecting"
    /\ UNCHANGED <<health, established_at, silence, set_back, outcomes, now>>

\* mark_disconnected and mark_failed, in any state.
mark_terminal(s) ==
    /\ state' = s
    /\ UNCHANGED <<health, established_at, silence, set_back, outcomes, now>>

pass ==
    /\ now < MaxTime /\ silence < MaxTime
    /\ now' = now + 1 /\ silence' = silence + 1
    /\ UNCHANGED <<state, health, established_at, set_back, outcomes>>

\* The wall clock is set, forward or back.
set_clock(t) ==
    /\ IF t < now THEN set_back + (now - t) <= MaxTime /\ set_back' = set_back + (now - t)
       ELSE UNCHANGED set_back
    /\ now' = t
    /\ UNCHANGED <<state, health, established_at, silence, outcomes>>

HealthNext ==
          \/ record_ping_success \/ record_ping_failure
          \/ record_message_sent \/ record_message_received
          \/ mark_connected \/ mark_disconnecting
          \/ \E s \in {"Disconnected", "Failed"} : mark_terminal(s)
          \/ pass \/ \E t \in 0 .. MaxTime : set_clock(t)

HealthSpec == HealthInit /\ [][HealthNext]_health_vars

-----------------------------------------------------------------------------
HealthTypeOK ==
          /\ state \in States
          /\ health.last_seen \in 0 .. MaxTime
          /\ is_usable => established_at # {}

(***************************************************************************)
(* A usable connection that unhealthy_connections leaves out is one to      *)
(* keep: the time since something was sent to the peer or came from it is   *)
(* less than max_silence, as far as the clock can tell, that is, but for    *)
(* what it was set back since then; and of the pings that were ever sent    *)
(* more were answered than lost.  A lost ping is not a contact, and neither *)
(* is a clock that was set forward, or set before the last contact.         *)
(***************************************************************************)
KeptPeersInTouch ==
    (is_usable /\ ~unhealthy) =>
        /\ silence < max_silence + set_back
        /\ outcomes.lost > 0 => outcomes.answered > outcomes.lost

\* Both parts of connection.rs tell the truth: the ends' counts about what was delivered
\* (send, recv, try_recv), and the health record about how long there was no contact and
\* how pings fared (is_healthy), up to what the clock was set back since.
LinksTellTruth == CountsAgree /\ KeptPeersInTouch
=============================================================================
