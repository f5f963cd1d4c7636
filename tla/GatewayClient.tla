--------------------------- MODULE GatewayClient ---------------------------
(***************************************************************************)
(* The node's WebSocket client, crates/clawnode/src/client.rs, and the     *)
(* loop of run_agent in main.rs that reconnects it.  One task does         *)
(* everything: it reads a frame, runs the command in it, and sends the     *)
(* result into a bounded channel whose only receiver is that same task.    *)
(***************************************************************************)
EXTENDS Naturals, Sequences, Functions

CONSTANTS Invokes,      \* ids of node.invoke.request events
          Capacity,     \* mpsc::channel(32)
          Burst,        \* bound on frames that are unanswered or due at once
          MaxSends,     \* bound on the times the gateway sends an invoke
          MaxInbox      \* bound on frames in transit to the node

\* What the gateway may send besides invokes: the connect challenge, hello-ok,
\* any other event, a response with a result or an error, and the close.
Frames == Invokes \cup {"challenge", "hello_ok", "event", "result", "error", "close"}

VARIABLES phase,     \* where connect() is, or run_agent's sleep
          inbox,     \* frames on their way to the node, in order
          queue,     \* the channel outgoing_tx / outgoing_rx
          blocked,   \* the frame of a send that waits for room, if any
          due,       \* heartbeat ticks that have elapsed
          sent,      \* history: times the gateway sent each invoke
          ran,       \* history: invokes executed on this connection
          replied    \* history: results written to this connection

vars == <<phase, inbox, queue, blocked, due, sent, ran, replied>>

Outgoing == Invokes \cup {"heartbeat"}

\* A heartbeat is a request of its own kind, which answers no invoke.
ASSUME HeartbeatAssumption == "heartbeat" \notin Invokes

TypeOK == /\ phase \in {"sleep", "challenge", "hello", "pairing", "loop"}
          /\ inbox \in Seq(Frames)
          /\ queue \in Seq(Outgoing) /\ Len(queue) <= Capacity
          /\ blocked \in Seq(Outgoing) /\ Len(blocked) <= 1
          /\ due \in 0 .. Burst
          /\ sent \in [Invokes -> 0 .. MaxSends]
          /\ ran \in Seq(Invokes) /\ replied \in Seq(Invokes)

invokes_in(s) == SelectSeq(s, LAMBDA f : f \in Invokes)

-----------------------------------------------------------------------------
\* run_agent calls connect(), which makes a new channel.
connect == /\ phase = "sleep"
           /\ phase' = "challenge"
           /\ UNCHANGED <<inbox, queue, blocked, due, sent, ran, replied>>

\* connect() returns: the connection and the channel with it are dropped.
disconnected == /\ phase' = "sleep"
                /\ inbox' = <<>> /\ queue' = <<>> /\ due' = 0
                /\ ran' = <<>> /\ replied' = <<>>
                /\ UNCHANGED <<blocked, sent>>

\* A timeout before the loop, or a read or write error that a free task sees.
connection_fails == phase # "sleep" /\ blocked = <<>> /\ disconnected

goto(p) == /\ phase' = p
           /\ inbox' = Tail(inbox)
           /\ UNCHANGED <<queue, blocked, due, sent, ran, replied>>

read_challenge == /\ phase = "challenge" /\ inbox # <<>>
                  /\ \/ Head(inbox) = "challenge" /\ goto("hello")
                     \/ Head(inbox) # "challenge" /\ disconnected

\* hello-ok skips pairing; a response of another form, or a close frame, which
\* is not text, goes on to it.
read_hello ==
    /\ phase = "hello" /\ inbox # <<>>
    /\ \/ Head(inbox) = "hello_ok" /\ goto("loop")
       \/ Head(inbox) = "result" /\ goto("pairing")
       \/ Head(inbox) = "close" /\ phase' = "pairing"
             /\ UNCHANGED <<inbox, queue, blocked, due, sent, ran, replied>>
       \/ Head(inbox) \notin {"hello_ok", "result", "close"} /\ disconnected

\* Any answer ends pairing, an error included; events are ignored.
read_pairing ==
    /\ phase = "pairing" /\ inbox # <<>>
    /\ \/ Head(inbox) \in {"result", "error"} /\ goto("loop")
       \/ Head(inbox) = "close" /\ disconnected
       \/ Head(inbox) \notin {"result", "error", "close"} /\ goto("pairing")

pairing_times_out == /\ phase = "pairing"
                     /\ phase' = "loop"
                     /\ UNCHANGED <<inbox, queue, blocked, due, sent, ran, replied>>

-----------------------------------------------------------------------------
\* The task is in its select! loop and no branch of it is waiting.
free == phase = "loop" /\ blocked = <<>>

\* outgoing_tx.send(f).await: it waits while the channel is full.
outgoing_send_one_slot_short(f) ==
    IF Len(queue) < Capacity - 1
    THEN queue' = Append(queue, f) /\ UNCHANGED blocked
    ELSE blocked' = <<f>> /\ UNCHANGED queue

outgoing_send_newest_first(f) ==
    IF Len(queue) < Capacity
    THEN queue' = <<f>> \o queue /\ UNCHANGED blocked
    ELSE blocked' = <<f>> /\ UNCHANGED queue

outgoing_send(f) ==
    IF Len(queue) < Capacity
    THEN queue' = Append(queue, f) /\ UNCHANGED blocked
    ELSE blocked' = <<f>> /\ UNCHANGED queue

\* The branch outgoing_rx.recv(): the frame is written to the socket.
write_one == /\ free /\ queue # <<>>
             /\ queue' = Tail(queue)
             /\ replied' = IF Head(queue) \in Invokes
                           THEN Append(replied, Head(queue)) ELSE replied
             /\ UNCHANGED <<phase, inbox, blocked, due, sent, ran>>

\* handle_invoke: the command runs to its end, then its result is sent.
handle_invoke(i) == /\ ran' = Append(ran, i)
                    /\ outgoing_send(i)
                    /\ inbox' = Tail(inbox)
                    /\ UNCHANGED <<phase, due, sent, replied>>

\* The branch read.next(), with handle_message.
read_one == /\ free /\ inbox # <<>>
            /\ \/ Head(inbox) \in Invokes /\ handle_invoke(Head(inbox))
               \/ Head(inbox) = "close" /\ disconnected
               \/ Head(inbox) \notin Invokes \cup {"close"} /\ goto("loop")

\* The branch heartbeat_interval.tick().
heartbeat == /\ free /\ due > 0
             /\ due' = due - 1
             /\ outgoing_send("heartbeat")
             /\ UNCHANGED <<phase, inbox, sent, ran, replied>>

-----------------------------------------------------------------------------
Outstanding == Len(invokes_in(inbox)) + Len(queue) + Len(blocked) + due

\* The gateway sends a frame; it repeats an invoke at will, and sends nothing
\* after a close.
GatewaySends(f) ==
    /\ phase # "sleep" /\ Len(inbox) < MaxInbox
    /\ "close" \notin Range(inbox)
    /\ f \in Invokes => Outstanding < Burst /\ sent[f] < MaxSends
    /\ inbox' = Append(inbox, f)
    /\ sent' = IF f \in Invokes THEN [sent EXCEPT ![f] = @ + 1] ELSE sent
    /\ UNCHANGED <<phase, queue, blocked, due, ran, replied>>

HeartbeatDue == /\ phase = "loop" /\ Outstanding < Burst
                /\ due' = due + 1
                /\ UNCHANGED <<phase, inbox, queue, blocked, sent, ran, replied>>

Init == /\ phase = "sleep" /\ inbox = <<>> /\ queue = <<>> /\ blocked = <<>>
        /\ due = 0 /\ sent = [i \in Invokes |-> 0]
        /\ ran = <<>> /\ replied = <<>>

Next == \/ connect \/ connection_fails
        \/ read_challenge \/ read_hello \/ read_pairing \/ pairing_times_out
        \/ write_one \/ read_one \/ heartbeat \/ HeartbeatDue
        \/ \E f \in Frames : GatewaySends(f)

Spec == Init /\ [][Next]_vars

\* What the task can do it does: it reads what has arrived, and select! picks
\* among the ready branches at random.
Fairness == /\ WF_vars(read_challenge) /\ WF_vars(read_hello) /\ WF_vars(read_pairing)
            /\ WF_vars(read_one) /\ WF_vars(write_one) /\ WF_vars(heartbeat)

-----------------------------------------------------------------------------
\* What left the task's hands: the results written, then what is in the channel and
\* the frame of a send that waits.
flow == replied \o queue \o blocked

\* r is what remains of s when everything but the invokes is left out: place[i] is the
\* place in s of the i-th of r.
remains(r, s) ==
    \E place \in [DOMAIN r -> DOMAIN s] :
        /\ \A i \in DOMAIN r : s[place[i]] = r[i]
        /\ \A i, j \in DOMAIN r : i < j => place[i] < place[j]
        /\ \A p \in DOMAIN s : s[p] \in Invokes => \E i \in DOMAIN r : place[i] = p

\* Nothing is lost, doubled or reordered while a connection lasts: without the
\* heartbeats, what was written, is in the channel and waits for it are the results of
\* the invokes that were executed, in that order (client.rs:680).
ResultsInOrder == phase = "loop" => remains(ran, flow)

\* When no more frames are outstanding than the channel holds, the task always
\* notices that the gateway has closed the connection and leaves it: it never
\* waits for room in a channel that only it can empty.
NoticesClose == "close" \in Range(inbox) ~> phase = "sleep"

\* Then, too, every result leaves the channel: it is written, or its connection
\* is lost.
ResultsLeave == \A i \in Invokes : i \in Range(queue) ~> i \notin Range(queue)
=============================================================================
