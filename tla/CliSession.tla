----------------------------- MODULE CliSession -----------------------------
(***************************************************************************)
(* The command line tool, crates/claw-cli/src: the WebSocket client that   *)
(* talks to the gateway (client.rs, protocol of claw-proto/src/cli.rs) and *)
(* the commands built on it.  A request carries no number: the next frame  *)
(* that arrives is taken for its answer.  The gateway is external; it      *)
(* serves requests in order, may be slow, and sends control frames.  Most  *)
(* commands are placeholders that print a fixed answer.                    *)
(***************************************************************************)
EXTENDS Naturals, Sequences, FiniteSets, Functions

CONSTANTS ClusterNodes,  \* nodes of the cluster
          Unknown,       \* a node id the gateway does not know
          WorkloadIds,   \* ids the gateway may give to workloads
          Reuse,         \* whether a caller keeps the client after its first request
          MaxRequests,   \* bound on the requests sent
          MaxPings       \* bound on the control frames sent

VARIABLES link,      \* "closed" or "open"
          mode,      \* "client", or "run" for the connection of RunCommand
          requests,  \* requests sent and not served yet
          frames,    \* frames on their way to the tool
          waiting,   \* {} or the request whose answer is awaited
          reported,  \* {} or what the last command told its user
          cluster,   \* what the gateway keeps: [draining, workloads]
          done,      \* history: numbers of the requests the gateway performed
          conn, sent, pings

cli_vars == <<link, mode, requests, frames, waiting, reported, cluster, done, conn, sent, pings>>

\* CliMessage: the requests the tool sends, and the type of their answers.
answer_type == [hello |-> "welcome", get_status |-> "status", list_nodes |-> "nodes",
                get_node |-> "node", list_workloads |-> "workloads",
                get_workload |-> "workload", start_workload |-> "workload_started",
                stop_workload |-> "workload_stopped", drain_node |-> "node_drained",
                undrain_node |-> "node_drained", get_logs |-> "logs", ping |-> "pong",
                get_molt_status |-> "molt_status", list_molt_peers |-> "molt_peers",
                get_molt_balance |-> "molt_balance"]

\* CliResponse.
AnswerTypes == {answer_type[t] : t \in DOMAIN answer_type} \cup {"error"}

Request(t, on) == [type |-> t, on |-> on, serial |-> sent + 1, conn |-> conn]

Queries == {[type |-> t, on |-> "none"] : t \in {"get_status", "list_nodes", "list_workloads", "ping"}}
MoltQueries == {[type |-> t, on |-> "none"] :
                   t \in {"get_molt_status", "list_molt_peers", "get_molt_balance"}}
NodeRequests == [type : {"get_node", "drain_node", "undrain_node"}, on : ClusterNodes \cup {Unknown}]
WorkloadRequests == [type : {"get_workload", "stop_workload", "get_logs"}, on : WorkloadIds]

\* What a command tells: the request it stands for and whether it succeeded.
Told(r, ok) == {[type |-> r.type, on |-> r.on, serial |-> r.serial, ok |-> ok]}

CliTypeOK == /\ link \in {"closed", "open"} /\ mode \in {"client", "run"}
             /\ \A r \in Range(requests) \cup waiting : r.type \in DOMAIN answer_type
             /\ \A f \in Range(frames) : f \in AnswerTypes \cup {"control"}
             /\ cluster.draining \subseteq ClusterNodes /\ cluster.workloads \subseteq WorkloadIds
             /\ done \subseteq 1..MaxRequests

CliInit == /\ link = "closed" /\ mode = "client" /\ requests = <<>> /\ frames = <<>>
           /\ waiting = {} /\ reported = {} /\ done = {}
           /\ cluster = [draining |-> {}, workloads |-> {}]
           /\ conn = 0 /\ sent = 0 /\ pings = 0

-----------------------------------------------------------------------------
(* client.rs *)

send(r) == /\ sent < MaxRequests
           /\ requests' = Append(requests, r) /\ waiting' = {r} /\ sent' = sent + 1

\* connect_with_timeout up to the handshake; RunCommand::submit_workload likewise.
connect(m) == /\ link = "closed" /\ sent < MaxRequests
              /\ link' = "open" /\ mode' = m /\ frames' = <<>> /\ conn' = conn + 1
              /\ requests' = Append(requests, [Request("hello", "none") EXCEPT !.conn = conn + 1])
              /\ waiting' = {[Request("hello", "none") EXCEPT !.conn = conn + 1]}
              /\ sent' = sent + 1 /\ reported' = {}
              /\ UNCHANGED <<cluster, done, pings>>

connect_failed == /\ link = "closed"
                  /\ reported' = Told([type |-> "hello", on |-> "none", serial |-> 0], FALSE)
                  /\ UNCHANGED <<link, mode, requests, frames, waiting, cluster, done, conn, sent, pings>>

\* A request of the client after the handshake: get_status .. ping.
send_request(q) == /\ link = "open" /\ mode = "client" /\ waiting = {}
                   /\ send(Request(q.type, q.on)) /\ reported' = {}
                   /\ UNCHANGED <<link, mode, frames, cluster, done, conn, pings>>

start_workload == /\ link = "open" /\ waiting = {}
                  /\ send(Request("start_workload", "none")) /\ reported' = {}
                  /\ UNCHANGED <<link, mode, frames, cluster, done, conn, pings>>

\* After its answer a command drops the client, and after an error any caller of
\* connect has no client; the library's callers may keep one after a request.
link_after(r, ok) == CASE ~ ok /\ r.type = "hello" -> "closed"
                       [] ok /\ r.type = "hello" -> "open"
                       [] mode = "run" \/ ~ Reuse -> "closed"
                       [] OTHER -> "open"

\* Variant: an answer of the type Error is taken as an answer.
accepts_error(r, f) == f \in {answer_type[r.type], "error"}

\* send_request and the match of each request: only the type is compared.
accepts(r, f) == f = answer_type[r.type]

\* The next frame ends the wait.  RunCommand reads on past control frames, the
\* client takes one for a protocol error.
receive == \E r \in waiting :
    /\ frames # <<>> /\ frames' = Tail(frames)
    /\ IF mode = "run" /\ Head(frames) = "control"
       THEN UNCHANGED <<link, waiting, reported>>
       ELSE LET ok == accepts(r, Head(frames))
            IN  /\ waiting' = {} /\ reported' = IF ok /\ r.type = "hello" THEN {} ELSE Told(r, ok)
                /\ link' = link_after(r, ok)
    /\ UNCHANGED <<mode, requests, cluster, done, conn, sent, pings>>

\* Variant: the handshake is not timed.
timed_out_later == \E r \in waiting :
    /\ mode = "client" /\ r.type # "hello"
    /\ waiting' = {} /\ reported' = Told(r, FALSE) /\ link' = link_after(r, FALSE)
    /\ UNCHANGED <<mode, requests, frames, cluster, done, conn, sent, pings>>

\* request_timeout; RunCommand has none.
timed_out == \E r \in waiting :
    /\ mode = "client"
    /\ waiting' = {} /\ reported' = Told(r, FALSE) /\ link' = link_after(r, FALSE)
    /\ UNCHANGED <<mode, requests, frames, cluster, done, conn, sent, pings>>

closed_by_gateway == /\ link = "open" /\ link' = "closed"
                     /\ reported' = IF waiting = {} THEN reported ELSE UNION {Told(r, FALSE) : r \in waiting}
                     /\ waiting' = {} /\ frames' = <<>>
                     /\ UNCHANGED <<mode, requests, cluster, done, conn, sent, pings>>

close == /\ link = "open" /\ waiting = {} /\ link' = "closed"
         /\ UNCHANGED <<mode, requests, frames, waiting, reported, cluster, done, conn, sent, pings>>

-----------------------------------------------------------------------------
(* The gateway. *)

possible(r) == /\ r.type \in {"get_node", "drain_node", "undrain_node"} => r.on \in ClusterNodes
               /\ r.type \in {"get_workload", "stop_workload", "get_logs"} =>
                     r.on \in cluster.workloads
               /\ r.type = "start_workload" => cluster.workloads # WorkloadIds

outcomes(r) ==
    CASE r.type = "start_workload" ->
           {[cluster EXCEPT !.workloads = @ \cup {w}] : w \in WorkloadIds \ cluster.workloads}
      [] r.type = "stop_workload" -> {[cluster EXCEPT !.workloads = @ \ {r.on}]}
      [] r.type = "drain_node"    -> {[cluster EXCEPT !.draining = @ \cup {r.on}]}
      [] r.type = "undrain_node"  -> {[cluster EXCEPT !.draining = @ \ {r.on}]}
      [] OTHER -> {cluster}

\* A request is served even when its connection is gone, the answer is then lost.
serve == /\ requests # <<>>
         /\ LET r == Head(requests)
                deliver(t) == IF link = "open" /\ r.conn = conn THEN Append(frames, t) ELSE frames
            IN  /\ requests' = Tail(requests)
                /\ IF possible(r)
                   THEN /\ cluster' \in outcomes(r) /\ done' = done \cup {r.serial}
                        /\ frames' = deliver(answer_type[r.type])
                   ELSE frames' = deliver("error") /\ UNCHANGED <<cluster, done>>
         /\ UNCHANGED <<link, mode, waiting, reported, conn, sent, pings>>

ping_client == /\ link = "open" /\ pings < MaxPings
               /\ frames' = Append(frames, "control") /\ pings' = pings + 1
               /\ UNCHANGED <<link, mode, requests, waiting, reported, cluster, done, conn, sent>>

-----------------------------------------------------------------------------
(* The placeholder commands: the subcommands that report a change. *)

alert     == {"create", "delete", "silence", "unsilence"}
auth      == {"login", "logout", "apikey create", "apikey revoke"}
autoscale == {"set-policy", "enable", "disable", "evaluate"}
dashboard == {"start"}
deploy    == {"deploy"}
logs      == {}
metrics   == {}
molt      == {"join", "leave"}
namespace == {"create", "delete"}
preempt   == {"preempt"}
priority  == {"set"}
rollback  == {"rollback"}
secret    == {"set", "delete", "rotate"}
service   == {"register", "deregister"}
tenant    == {"create", "delete"}

placeholders == [alert |-> alert, auth |-> auth, autoscale |-> autoscale,
                 dashboard |-> dashboard, deploy |-> deploy, logs |-> logs,
                 metrics |-> metrics, molt |-> molt, namespace |-> namespace,
                 preempt |-> preempt, priority |-> priority, rollback |-> rollback,
                 secret |-> secret, service |-> service, tenant |-> tenant]

\* A fixed answer; nothing is sent.
placeholder(c) == /\ link = "closed" /\ placeholders[c] # {}
                  /\ \E s \in placeholders[c] :
                        reported' = Told([type |-> c, on |-> s, serial |-> 0], TRUE)
                  /\ UNCHANGED <<link, mode, requests, frames, waiting, cluster, done, conn, sent, pings>>

CliNext == \/ \E m \in {"client", "run"} : connect(m)
           \/ \E q \in Queries \cup MoltQueries \cup NodeRequests \cup WorkloadRequests : send_request(q)
           \/ start_workload \/ connect_failed \/ receive \/ timed_out \/ closed_by_gateway \/ close
           \/ serve \/ ping_client
           \/ \E c \in DOMAIN placeholders : placeholder(c)

\* The timer of a request runs whether or not the gateway answers.
CliFairness == WF_cli_vars(timed_out)

CliSpec == CliInit /\ [][CliNext]_cli_vars /\ CliFairness

-----------------------------------------------------------------------------
\* A command that reports the success of its request was performed by the
\* gateway, however late answers, timeouts, control frames and lost connections
\* fall (every command opens its own connection: node.rs, status.rs, run.rs).
\* It does not hold of a client kept after a timeout: the late answer is then
\* taken for that of the next request of the same type.
AnswersMatch == \A t \in reported : (t.ok /\ t.serial # 0) => t.serial \in done

\* A command that waits for the gateway ends, if the gateway never answers
\* (request_timeout).  RunCommand::submit_workload has no timeout and may wait
\* for ever.
RequestsEnd == (waiting # {} /\ mode = "client") ~> (waiting = {} \/ mode = "run")

\* A command that reports a change has made it.  The placeholders have not.
SuccessMeansDone == \A t \in reported : t.ok => t.serial \in done
=============================================================================
