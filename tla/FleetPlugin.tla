---------------------------- MODULE FleetPlugin -----------------------------
(***************************************************************************)
(* The plugin, plugin/openclaw-clawbernetes/src, in two parts that share   *)
(* no variable: its fleet tools and its health monitor.                    *)
(***************************************************************************)
(***************************************************************************)
(* The plugin's fleet tools (plugin/openclaw-clawbernetes/src/tools) over  *)
(* its gateway calls (invoke.ts).  A tool lists the nodes, fans its        *)
(* commands out to them, waits for every answer, and reports; claw_deploy  *)
(* then runs a workload on the node it scored best.  Calls overlap, nodes  *)
(* come and go, and an answer may be lost after the node has done the work.*)
(***************************************************************************)
EXTENDS Integers, Sequences, SequencesExt, FiniteSets, FiniteSetsExt, TLC

CONSTANTS Nodes, Calls,
          Flat,          \* the nodes whose answers have the form the tools read
          Gpus,          \* [Nodes -> Nat], the GPUs of a node
          Memory,        \* [Nodes -> Nat], its free memory in MiB
          Requests       \* the arguments of the calls

VARIABLES fleet,         \* [connected, healthy, running] of each node
          calls,         \* the calls under way, or {}
          told,          \* their results
          performed      \* history: the nodes that ran the call's workload, in order

tool_vars == <<fleet, calls, told, performed>>

None == {}

\* What each tool asks of the nodes; claw_multi_invoke fans out a run of a workload.
commands(tool) == CASE tool = "fleet_status"  -> {"node.health", "node.capabilities"}
                    [] tool = "deploy"        -> {"node.health", "node.capabilities"}
                    [] tool = "gpu_inventory" -> {"gpu.list", "gpu.metrics"}
                    [] tool = "workloads"     -> {"workload.list"}
                    [] tool = "multi_invoke"  -> {"workload.run"}

free(n) == IF fleet[n].running < Gpus[n] THEN Gpus[n] - fleet[n].running ELSE 0

\* A node's answer.  clawnode names no free GPUs, memory or workloads among its
\* capabilities, and wraps its GPUs in an object.
payload(n, command) ==
    CASE command = "node.health" -> [healthy |-> fleet[n].healthy]
      [] command = "node.capabilities" ->
            [gpu_count |-> Gpus[n],
             gpu_available |-> IF n \in Flat THEN {free(n)} ELSE None,
             memory_available |-> IF n \in Flat THEN {Memory[n]} ELSE None,
             workload_count |-> IF n \in Flat THEN {fleet[n].running} ELSE None]
      [] command = "gpu.list" -> IF n \in Flat
                                   THEN [i \in 1..Gpus[n] |-> [allocated |-> i <= fleet[n].running]]
                                   ELSE [gpus |-> Gpus[n]]
      [] command = "gpu.metrics" -> [i \in 1..(IF n \in Flat THEN Gpus[n] ELSE 0) |->
                                        [utilization |-> IF i <= fleet[n].running THEN 1 ELSE 0]]
      [] command = "workload.list" -> fleet[n].running
      [] command = "workload.run" -> "started"

number(option, default) == IF option = None THEN default ELSE CHOOSE x \in option : TRUE

-----------------------------------------------------------------------------
ToolInit == /\ fleet \in [Nodes -> [connected : BOOLEAN, healthy : {TRUE}, running : {0}]]
            /\ calls = [c \in Calls |-> None]
            /\ told = [c \in Calls |-> None]
            /\ performed = [c \in Calls |-> <<>>]

\* The requests of a fan-out that are still open: a place in the list of nodes and a command.
fan_out(call, ids) == [call EXCEPT !.at = "fan", !.ids = ids,
                                   !.open = (DOMAIN ids) \X commands(call.tool)]

execute(c, r) ==
    LET call == [tool |-> r.tool, arg |-> r.arg, at |-> "list", ids |-> <<>>, open |-> {},
                 results |-> <<>>, best |-> None]
    IN  /\ calls[c] = None /\ told[c] = None
        /\ calls' = [calls EXCEPT ![c] =
               {IF r.tool = "multi_invoke" /\ r.arg # <<>> THEN fan_out(call, r.arg) ELSE call}]
        /\ UNCHANGED <<fleet, told, performed>>

tell(c, result) == /\ told' = [told EXCEPT ![c] = {result}]
                   /\ calls' = [calls EXCEPT ![c] = None]

Failed == [kind |-> "error"]

nothing_listed(tool) ==
    CASE tool = "fleet_status" -> [kind |-> "fleet", nodes |-> 0, healthy |-> 0, unhealthy |-> 0,
                                   total |-> 0, available |-> 0, workloads |-> 0]
      [] tool = "deploy" -> Failed
      [] tool = "multi_invoke" -> [kind |-> "outcomes", succeeded |-> 0, failed |-> 0]
      [] OTHER -> [kind |-> "entries", entries |-> {}]

\* The nodes a tool goes on with: those its filter keeps.
kept(call, ids) == IF call.tool \in {"fleet_status", "workloads"} /\ call.arg # None
                     THEN SelectSeq(ids, LAMBDA n : n \in call.arg) ELSE ids

\* listNodes: the connected nodes in some order, or none when the request fails.
listNodes(c) ==
    \E call \in calls[c], order \in SetToSeqs({n \in Nodes : fleet[n].connected}) \cup {<<>>} :
       /\ call.at = "list"
       /\ IF order = <<>>
            THEN tell(c, nothing_listed(call.tool))
            ELSE calls' = [calls EXCEPT ![c] = {fan_out(call, kept(call, order))}] /\ UNCHANGED told
       /\ UNCHANGED <<fleet, performed>>

\* What a node does with a command.
perform(c, n, command) ==
    IF command = "workload.run"
      THEN /\ fleet' = [fleet EXCEPT ![n].running = @ + 1]
           /\ performed' = [performed EXCEPT ![c] = Append(@, n)]
      ELSE UNCHANGED <<fleet, performed>>

\* invokeNode: the node's answer; or an error, be it that the node never had the command
\* or that its answer came too late.
invoked(n, command) ==
    {[result |-> [ok |-> FALSE], reached |-> FALSE]} \cup
    (IF fleet[n].connected
       THEN {[result |-> [ok |-> FALSE], reached |-> TRUE],
             [result |-> [ok |-> TRUE, payload |-> payload(n, command)], reached |-> TRUE]}
       ELSE {})

invokeNode(c, n, command, i) ==
    /\ i \in invoked(n, command)
    /\ IF i.reached THEN perform(c, n, command) ELSE UNCHANGED <<fleet, performed>>

\* invokeAll keeps the results by node.
answer(c) ==
    \E call \in calls[c] : call.at = "fan" /\ \E o \in call.open :
       LET n == call.ids[o[1]]
       IN  \E i \in invoked(n, o[2]) :
             /\ invokeNode(c, n, o[2], i)
             /\ calls' = [calls EXCEPT ![c] =
                   {[call EXCEPT !.open = @ \ {o}, !.results = (<<o[2], n>> :> i.result) @@ @]}]
             /\ UNCHANGED told

-----------------------------------------------------------------------------
\* Reading the results.
given(call, command) == {n \in ToSet(call.ids) : call.results[<<command, n>>].ok}
read(call, command, n) == call.results[<<command, n>>].payload

isHealthyPayload(call) == {n \in given(call, "node.health") : read(call, "node.health", n).healthy}

\* The sum of a number that each node reports.
total(of) == MapThenSumSet(LAMBDA n : of[n], DOMAIN of)

fleet_status(call) ==
    LET caps == given(call, "node.capabilities")
        cap(n) == read(call, "node.capabilities", n)
    IN  [kind |-> "fleet", nodes |-> Len(call.ids),
         healthy |-> Cardinality(isHealthyPayload(call)),
         unhealthy |-> Cardinality(ToSet(call.ids) \ isHealthyPayload(call)),
         total |-> total([n \in caps |-> cap(n).gpu_count]),
         available |-> total([n \in caps |-> number(cap(n).gpu_available, cap(n).gpu_count)]),
         workloads |-> total([n \in caps |-> number(cap(n).workload_count, 0)])]

buildMetricsMap(call, n) ==
    IF n \in given(call, "gpu.metrics") THEN read(call, "gpu.metrics", n) ELSE <<>>

gpu_inventory(call) ==
    LET entry(n, i) ==
            [nodeId |-> n, gpuIndex |-> i,
             utilization |-> IF i \in DOMAIN buildMetricsMap(call, n)
                               THEN buildMetricsMap(call, n)[i].utilization ELSE 0,
             available |-> ~read(call, "gpu.list", n)[i].allocated]
        entries == UNION {{entry(n, i) : i \in DOMAIN read(call, "gpu.list", n)} :
                             n \in given(call, "gpu.list") \cap Flat}
    IN  [kind |-> "entries", entries |-> {e \in entries : call.arg => e.available}]

workloads(call) ==
    [kind |-> "entries",
     entries |-> UNION {{[nodeId |-> n, workload |-> i] : i \in 1..read(call, "workload.list", n)} :
                           n \in given(call, "workload.list")}]

multi_invoke(call) ==
    LET done(i) == call.ids[i] \in given(call, "workload.run")
    IN  [kind |-> "outcomes", succeeded |-> Cardinality({i \in DOMAIN call.ids : done(i)}),
         failed |-> Cardinality({i \in DOMAIN call.ids : ~done(i)})]

-----------------------------------------------------------------------------
\* claw_deploy: the nodes that fit, and their scores.
free_gpus(call, n) == number(read(call, "node.capabilities", n).gpu_available, 0)
free_memory(call, n) == number(read(call, "node.capabilities", n).memory_available, 0)
load(call, n) == number(read(call, "node.capabilities", n).workload_count, 0)

fitting(call) == {n \in given(call, "node.capabilities") \cap isHealthyPayload(call) :
                     free_gpus(call, n) >= call.arg.gpus}

score(call, n) == free_gpus(call, n) * 100 + free_memory(call, n) - load(call, n) * 50
                  + (IF n \in call.arg.prefer THEN 10000 ELSE 0)

\* Variant: the scores are sorted upwards.
best_upwards(call, n) == \A m \in fitting(call) : score(call, n) <= score(call, m)

best(call, n) == \A m \in fitting(call) : score(call, n) >= score(call, m)

\* The first in the order of the listing, of those with the highest score.
pick(call) == LET i == CHOOSE i \in DOMAIN call.ids :
                          /\ call.ids[i] \in fitting(call) /\ best(call, call.ids[i])
                          /\ \A j \in 1..(i - 1) :
                                call.ids[j] \in fitting(call) => ~best(call, call.ids[j])
              IN  call.ids[i]

\* Every answer is there.
gathered(c) ==
    \E call \in calls[c] :
       /\ call.at = "fan" /\ call.open = {}
       /\ CASE call.tool = "fleet_status"  -> tell(c, fleet_status(call))
            [] call.tool = "gpu_inventory" -> tell(c, gpu_inventory(call))
            [] call.tool = "workloads"     -> tell(c, workloads(call))
            [] call.tool = "multi_invoke"  -> tell(c, multi_invoke(call))
            [] call.tool = "deploy" ->
                  IF fitting(call) = {}
                    THEN tell(c, Failed)
                    ELSE /\ calls' = [calls EXCEPT ![c] =
                                          {[call EXCEPT !.at = "run", !.best = {pick(call)}]}]
                         /\ UNCHANGED told
       /\ UNCHANGED <<fleet, performed>>

\* Variant: the answer to workload.run is not looked at.
deployed_unchecked(n, result) == [kind |-> "deployed", nodeId |-> n]

deployed(n, result) == IF result.ok THEN [kind |-> "deployed", nodeId |-> n] ELSE Failed

run_best(c) ==
    \E call \in calls[c] : call.at = "run" /\ \E n \in call.best : \E i \in invoked(n, "workload.run") :
       invokeNode(c, n, "workload.run", i) /\ tell(c, deployed(n, i.result))

\* Nodes come and go, fall ill and recover, and their workloads end.
fleet_changes ==
    /\ \E n \in Nodes :
          \/ fleet' = [fleet EXCEPT ![n].connected = ~@]
          \/ fleet' = [fleet EXCEPT ![n].healthy = ~@]
          \/ fleet[n].running > 0 /\ fleet' = [fleet EXCEPT ![n].running = @ - 1]
    /\ UNCHANGED <<calls, told, performed>>

ToolNext == \/ fleet_changes
            \/ \E c \in Calls : \/ \E r \in Requests : execute(c, r)
                                \/ listNodes(c) \/ answer(c) \/ gathered(c) \/ run_best(c)

ToolSpec == ToolInit /\ [][ToolNext]_tool_vars

-----------------------------------------------------------------------------
\* The calls and their results have their types.
ToolTypeOK == /\ fleet \in [Nodes -> [connected : BOOLEAN, healthy : BOOLEAN, running : Nat]]
              /\ \A c \in Calls : /\ Cardinality(calls[c]) + Cardinality(told[c]) <= 1
                                  /\ performed[c] \in Seq(Nodes)

\* What a tool tells is what happened, though nodes come and go while it waits and other
\* calls run beside it: a deployment that is reported has started one workload, on the
\* node it names; claw_multi_invoke counts every node once and none that did nothing as
\* a success; and the fleet's figures add up.
ToolsTellTruth ==
    \A c \in Calls : \A r \in told[c] :
       /\ r.kind = "deployed" => performed[c] = <<r.nodeId>>
       /\ r.kind = "outcomes" => r.succeeded <= Len(performed[c])
       /\ r.kind = "fleet" => r.healthy + r.unhealthy = r.nodes /\ r.available <= r.total

\* claw_deploy takes a node that said it is healthy and has the GPUs, and no other that
\* answered is better in GPUs, memory and load alike unless the taken one is preferred.
DeployUndominated ==
    \A c \in Calls : \A call \in calls'[c] :
       calls' # calls /\ call.at = "run" =>
          \A n \in call.best :
             /\ n \in fitting(call)
             /\ n \in call.arg.prefer \/
                ~\E m \in fitting(call) :
                    /\ free_gpus(call, m) >= free_gpus(call, n)
                    /\ free_memory(call, m) > free_memory(call, n)
                    /\ load(call, m) <= load(call, n)

-----------------------------------------------------------------------------
(***************************************************************************)
(* The plugin's fleet health monitor (plugin/openclaw-clawbernetes/src/    *)
(* services/health-monitor.ts).  checkFleetHealth runs at the start and on *)
(* every tick of an interval that does not wait for the check before it:   *)
(* each await is a point where another check, or stop, may come between.   *)
(* A check lists the nodes, asks each for its health, and then updates     *)
(* knownNodes and cachedStatus in one go.                                  *)
(***************************************************************************)
CONSTANTS Slots,            \* a slot for each check that may be under way
          MaxTicks,         \* bounds the checks
          CheckKeeps, MostTransitions   \* 20 and 50 in the code

VARIABLES health,            \* the nodes: "gone", "healthy" or "ill"
          interval,         \* whether the interval is set
          checks, knownNodes, cachedStatus, ticks

monitor_vars == <<health, interval, checks, knownNodes, cachedStatus, ticks>>

lastOf(s, n) == SubSeq(s, IF Len(s) > n THEN Len(s) - n + 1 ELSE 1, Len(s))

Transitions == [nodeId : Nodes, from : {"unknown", "healthy", "unhealthy"},
                to : {"healthy", "unhealthy", "disconnected"}]

addTransition(recent, t) == lastOf(Append(recent, t), MostTransitions)

addTransitions(recent, ts) == FoldLeft(addTransition, recent, ts)

-----------------------------------------------------------------------------
\* A check that waits for the listing, and one that waits for the nodes' answers.
Listing == [awaits |-> "listing"]
Asking(ids, missing) == [awaits |-> "health", nodeIds |-> ids, disconnected |-> missing,
                         answers |-> <<>>]

MonitorInit == /\ health \in [Nodes -> {"gone", "healthy"}]
               /\ interval = FALSE
               /\ checks = [s \in Slots |-> {}]
               /\ knownNodes = <<>>
               /\ cachedStatus = [nodes |-> 0, healthy |-> 0, unhealthy |-> 0, disconnected |-> {},
                                  recentTransitions |-> <<>>]
               /\ ticks = 0

checkFleetHealth(s) == /\ checks[s] = {} /\ ticks < MaxTicks
                       /\ checks' = [checks EXCEPT ![s] = {Listing}]
                       /\ ticks' = ticks + 1
                       /\ UNCHANGED <<health, knownNodes, cachedStatus>>

start == /\ ~interval /\ interval' = TRUE
         /\ \E s \in Slots : checkFleetHealth(s)

tick == /\ interval /\ UNCHANGED interval
        /\ \E s \in Slots : checkFleetHealth(s)

stop == /\ interval /\ interval' = FALSE
        /\ UNCHANGED <<health, checks, knownNodes, cachedStatus, ticks>>

\* A node the monitor knew as healthy and does not find is no longer healthy.
\* Variant: it is told, and stays healthy.
missed_still_healthy(known, missing) == known

missed(known, missing) ==
    [n \in DOMAIN known |-> [known[n] EXCEPT !.healthy = known[n].healthy /\ n \notin missing]]

\* listNodes answers with the connected nodes, or with none when the request fails or
\* times out.  The nodes that are known and not listed are disconnected; with none
\* listed the check ends here.
listed(s, ids) ==
    LET missing == DOMAIN knownNodes \ ids
        turned == {n \in missing : knownNodes[n].healthy}
    IN  /\ checks[s] = {Listing}
        /\ knownNodes' = missed(knownNodes, missing)
        /\ \E order \in SetToSeqs(turned) :
             LET recent == addTransitions(cachedStatus.recentTransitions,
                               [i \in DOMAIN order |-> [nodeId |-> order[i], from |-> "healthy",
                                                        to |-> "disconnected"]])
             IN  IF ids = {}
                   THEN /\ cachedStatus' = [nodes |-> 0, healthy |-> 0, unhealthy |-> 0,
                                            disconnected |-> missing,
                                            recentTransitions |-> lastOf(recent, CheckKeeps)]
                        /\ checks' = [checks EXCEPT ![s] = {}]
                   ELSE /\ cachedStatus' = [cachedStatus EXCEPT !.recentTransitions = recent]
                        /\ checks' = [checks EXCEPT ![s] = {Asking(ids, missing)}]
        /\ UNCHANGED <<health, interval, ticks>>

list_nodes(s) == \/ listed(s, {n \in Nodes : health[n] # "gone"})
                 \/ listed(s, {})

\* One node's answer to node.health arrives, or its error or timeout: isHealthyResult.
isHealthyResult(n) == IF health[n] = "healthy" THEN {TRUE, FALSE} ELSE {FALSE}

health_answer(s) ==
           \E c \in checks[s] : \E n \in Nodes :
              /\ c.awaits = "health" /\ n \in c.nodeIds \ DOMAIN c.answers
              /\ \E h \in isHealthyResult(n) :
                   checks' = [checks EXCEPT ![s] = {[c EXCEPT !.answers = @ @@ (n :> h)]}]
              /\ UNCHANGED <<health, interval, knownNodes, cachedStatus, ticks>>

\* What an answer adds to the transitions: only a change from what is known now.
transition(n, h) ==
    LET word == IF h THEN "healthy" ELSE "unhealthy"
    IN  IF n \notin DOMAIN knownNodes
          THEN <<[nodeId |-> n, from |-> "unknown", to |-> word]>>
          ELSE IF knownNodes[n].healthy = h THEN <<>>
          ELSE <<[nodeId |-> n, from |-> IF h THEN "unhealthy" ELSE "healthy", to |-> word]>>

failures(n, h) == IF h THEN 0
                  ELSE 1 + (IF n \in DOMAIN knownNodes THEN knownNodes[n].consecutiveFailures ELSE 0)

\* All have answered.
health_gathered(s) ==
           \E c \in checks[s] :
              /\ c.awaits = "health" /\ DOMAIN c.answers = c.nodeIds
              /\ \E order \in SetToSeqs(c.nodeIds) :
                   LET ts == FlattenSeq([i \in DOMAIN order |-> transition(order[i], c.answers[order[i]])])
                       fit == {n \in c.nodeIds : c.answers[n]}
                   IN  cachedStatus' = [nodes |-> Cardinality(c.nodeIds), healthy |-> Cardinality(fit),
                                        unhealthy |-> Cardinality(c.nodeIds \ fit),
                                        disconnected |-> c.disconnected,
                                        recentTransitions |->
                                            lastOf(addTransitions(cachedStatus.recentTransitions, ts),
                                                   CheckKeeps)]
              /\ knownNodes' = [n \in c.nodeIds |->
                                   [healthy |-> c.answers[n],
                                    consecutiveFailures |-> failures(n, c.answers[n])]] @@ knownNodes
              /\ checks' = [checks EXCEPT ![s] = {}]
              /\ UNCHANGED <<health, interval, ticks>>

\* Nodes come, go, fall ill and recover.
health_changes == /\ \E n \in Nodes : \E h \in {"gone", "healthy", "ill"} \ {health[n]} :
                        health' = [health EXCEPT ![n] = h]
                  /\ UNCHANGED <<interval, checks, knownNodes, cachedStatus, ticks>>

MonitorNext == \/ start \/ tick \/ stop \/ health_changes
               \/ \E s \in Slots : list_nodes(s) \/ health_answer(s) \/ health_gathered(s)

MonitorSpec == MonitorInit /\ [][MonitorNext]_monitor_vars

-----------------------------------------------------------------------------
\* The monitor's state has its types.
MonitorTypeOK == /\ health \in [Nodes -> {"gone", "healthy", "ill"}]
                 /\ interval \in BOOLEAN /\ ticks \in 0..MaxTicks
                 /\ DOMAIN knownNodes \subseteq Nodes
                 /\ cachedStatus.recentTransitions \in Seq(Transitions)

about(n) == SelectSeq(cachedStatus.recentTransitions, LAMBDA t : t.nodeId = n)

\* The transitions the dashboard shows make sense however checks overlap: what is told
\* of a node goes by turns into health and out of it, and the last word on a node is
\* what the monitor knows of it (checkFleetHealth, addTransition).
TransitionsFollow ==
    \A n \in Nodes :
       LET said == about(n) IN
       /\ \A i \in 1..(Len(said) - 1) : (said[i].to = "healthy") = (said[i + 1].from = "healthy")
       /\ said # <<>> => /\ n \in DOMAIN knownNodes
                         /\ (Last(said).to = "healthy") = knownNodes[n].healthy
=============================================================================
