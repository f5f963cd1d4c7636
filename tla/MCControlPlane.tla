--------------------------- MODULE MCControlPlane ---------------------------
(***************************************************************************)
(* What surrounds the nodes' commands: the mesh between nodes, the Docker  *)
(* runtimes and their configurations, the command-line tool's connection   *)
(* to the gateway, the placement of workloads on nodes, a workload's       *)
(* record, the metrics registry and the plugin's monitor and tools.  They  *)
(* share no variable; each behaviour moves one of them, `part`.  Some are  *)
(* taken in several instances.                                             *)
(***************************************************************************)
EXTENDS NodeMesh, CliSession, Integers, Sequences, TLC

CONSTANTS Parts, p1, p2, g1, g2

VARIABLES part,
          docker, tracked, streams, container_ids, answer,
          config, request, builder_calls,
          containers, next_id, creating, allocations, used, granted,
          capabilities, spec, record, log, message, seen, now,
          registry, scrape, body, before,
          health, interval, checks, knownNodes, cachedStatus, ticks,
          fleet, calls, results, performed

runtime_vars == <<docker, tracked, streams, container_ids, answer>>
config_vars == <<config, request, builder_calls>>
fake_vars == <<containers, next_id, creating, allocations, used, granted>>
scheduling_vars == <<capabilities, spec>>
record_vars == <<record, log, message, seen>>
metrics_vars == <<registry, scrape, body, before>>
monitor_vars == <<health, interval, checks, knownNodes, cachedStatus, ticks>>
tools_vars == <<fleet, calls, results, performed>>

all_vars == <<part, vars, runtime_vars, config_vars, fake_vars, cli_vars,
              scheduling_vars, record_vars, now, metrics_vars, monitor_vars, tools_vars>>

\* A process alone, with enough nodes to use up the addresses of a region.
LongMesh == INSTANCE NodeMesh WITH Processes <- {p1}, Endpoints <- {}, MaxIds <- 6

\* A configuration that names no device and asks for GPUs, and one that is refused.
Asking == [name |-> "a", valid |-> TRUE, devices |-> {}, capabilities |-> TRUE,
           restart |-> TRUE, managed |-> FALSE]
Refused == [name |-> "b", valid |-> FALSE, devices |-> {g2}, capabilities |-> TRUE,
            restart |-> FALSE, managed |-> FALSE]

Runtime == INSTANCE ContainerRuntimes WITH
    Gpus <- {g1, g2}, Specs <- [gpu_ids : {{g1}}, managed : {TRUE}],
    Configs <- {Asking}, NoName <- "fresh", Polls <- 2, MaxIds <- 2, MaxStreams <- 0,
    ids <- container_ids

LogStreams == INSTANCE ContainerRuntimes WITH
    Gpus <- {g1, g2}, Specs <- [gpu_ids : {{}, {g1}}, managed : {TRUE}],
    Configs <- {Asking, Refused}, NoName <- "fresh", Polls <- 2, MaxIds <- 1, MaxStreams <- 1,
    ids <- container_ids

Fake == INSTANCE FakeRuntime WITH Gpus <- {g1, g2}, Threads <- {"t1", "t2"}, MaxCreated <- 3

\* Sizes of 2 to 16 bytes where 2^63 is 8, so that limits wrap in a u64 and in an i64.
Config == INSTANCE ContainerConfigs WITH
    Half <- 8, Unit <- 2, Sizes <- {0, 2, 4, 8}, MaxCalls <- 3, calls <- builder_calls,
    Names <- {<<"alphanumeric", "-">>, <<"/">>},
    Specifiers <- {<<"index", 0>>, <<"index", 1>>, <<"uuid", {"u"}>>, <<"MIG", {"m"}>>}

\* A workload's record.
MAX_WORKLOAD_LOG_LINES == 1
MaxLines == 2
MaxEvents == 1
MaxStamp == 2

\* Selectors compare a quantity or look for a pattern; a chain is a requirement with
\* its fallback.
Part(on, op, v, p) == [on |-> on, op |-> op, value |-> v, pattern |-> p]
Requirement(n, sel, m, pat, pr) ==
    [count |-> n, selector |-> sel, min_memory_mib |-> m, model_pattern |-> pat, priority |-> pr]

Placement == INSTANCE ProtoWorkloads WITH
    Gpus <- {[name |-> {"A"}, memory_mib |-> 80], [name |-> {"A"}, memory_mib |-> 40],
             [name |-> {}, memory_mib |-> 24]},
    MaxGpus <- 3,
    Chains <- {<<Requirement(2, {}, {80}, {}, 0),
                 Requirement(1, {<<Part("memory_mib", ">=", {40}, {}), Part("name", "", {}, {"A"})>>},
                             {}, {}, 1)>>,
               <<Requirement(1, {<<Part("index", ">", {0}, {})>>}, {}, {"A"}, 2),
                 Requirement(3, {}, {24}, {}, 1)>>,
               <<Requirement(0, {}, {}, {}, 0)>>,
               <<Requirement(1, {<<Part("index", "=", {}, {})>>}, {}, {}, 5)>>},
    ConditionTypes <- {}, MaxConditions <- 0, Labels <- {}, Gates <- {"g"},
    Images <- {<<"a">>}, EnvKeys <- {<<"digit">>}, Counts <- {3}, MAX_GPU_COUNT <- 2, MaxTime <- 0

\* The rest of what placement looks at: conditions and labels.
Admission == INSTANCE ProtoWorkloads WITH
    Gpus <- {}, MaxGpus <- 0, Chains <- {}, ConditionTypes <- {"c"}, MaxConditions <- 2,
    Labels <- {"l"}, Gates <- {}, Images <- {<<"a">>}, EnvKeys <- {},
    Counts <- {}, MAX_GPU_COUNT <- 2, MaxTime <- 1

\* Half stands for 2^63; a count of Half is the least that wraps.
GatewayMetrics == INSTANCE Prometheus WITH
    States <- {"s"}, Nodes <- {}, Gpus <- {}, Workloads <- {}, Half <- 2, Counts <- {2},
    Utilizations <- {}, Durations <- {"d1", "d2"}, Most <- 1, metrics <- registry

NodeMetrics == INSTANCE Prometheus WITH
    States <- {}, Nodes <- {"n"}, Gpus <- {}, Workloads <- {"w"}, Half <- 2, Counts <- {},
    Utilizations <- {}, Durations <- {}, Most <- 1, metrics <- registry

GpuMetrics == INSTANCE Prometheus WITH
    States <- {}, Nodes <- {"n"}, Gpus <- {"g"}, Workloads <- {}, Half <- 2, Counts <- {2},
    Utilizations <- {15}, Durations <- {}, Most <- 0, metrics <- registry

\* The monitor runs two checks at a time: two checks in all over two nodes, and four
\* over one node.
Slots == {1, 2}
MaxTicks == 2
CheckKeeps == 2
MostTransitions == 3

\* A call of each tool over two nodes, whose answers have the form the tools read or
\* clawnode's; and two calls at a time over one node.
Deploy(prefer) == [tool |-> "deploy", arg |-> [gpus |-> 1, prefer |-> prefer]]
EachTool == {Deploy({}), Deploy({"a"}),
             [tool |-> "fleet_status", arg |-> {}], [tool |-> "gpu_inventory", arg |-> TRUE],
             [tool |-> "workloads", arg |-> {"a"}],
             [tool |-> "multi_invoke", arg |-> <<>>], [tool |-> "multi_invoke", arg |-> <<"a", "b">>]}
GpusOf == [n \in {"a", "b"} |-> IF n = "a" THEN 1 ELSE 2]
MemoryOf == [n \in {"a", "b"} |-> IF n = "a" THEN 8 ELSE 16]

Tools == INSTANCE FleetPlugin WITH
    Nodes <- {"a", "b"}, Calls <- {1}, Flat <- {"a", "b"}, Gpus <- GpusOf, Memory <- MemoryOf,
    Requests <- EachTool, told <- results

NodeTools == INSTANCE FleetPlugin WITH
    Nodes <- {"a", "b"}, Calls <- {1}, Flat <- {}, Gpus <- GpusOf, Memory <- MemoryOf,
    Requests <- EachTool, told <- results

TwoTools == INSTANCE FleetPlugin WITH
    Nodes <- {"a"}, Calls <- {1, 2}, Flat <- {"a"}, Gpus <- GpusOf, Memory <- MemoryOf,
    Requests <- {Deploy({}), [tool |-> "fleet_status", arg |-> {}]}, told <- results, MaxTicks <- 4

-----------------------------------------------------------------------------
Scheduled == {"placement", "admission"}
Meshed == {"mesh", "long_mesh"}
Contained == {"runtime", "log_streams"}
Metered == {"gateway_metrics", "node_metrics", "gpu_metrics"}
Monitored == {"monitor", "long_monitor"}
Plugged == {"tools", "node_tools", "two_tools"}

ControlInit == /\ part \in Parts
               /\ Init /\ Runtime!Init /\ Config!Init /\ Fake!FakeInit /\ CliInit
               /\ Placement!PlacementInit /\ Placement!RecordInit /\ GatewayMetrics!Init
               /\ IF part = "long_monitor" THEN TwoTools!MonitorInit ELSE Tools!MonitorInit
               /\ IF part = "two_tools" THEN TwoTools!ToolInit ELSE Tools!ToolInit
               /\ part # "config" => config.name # <<"/">>
               /\ part \notin Monitored => \A n \in DOMAIN health : health[n] = "healthy"
               /\ part \notin Plugged => \A n \in DOMAIN fleet : fleet[n].connected

Step == \/ part = "mesh" /\ Next
        \/ part = "long_mesh" /\ LongMesh!Next
        \/ part = "runtime" /\ Runtime!Next
        \/ part = "log_streams" /\ LogStreams!Next
        \/ part = "config" /\ Config!Next
        \/ part = "fake" /\ Fake!FakeNext
        \/ part = "cli" /\ CliNext
        \/ part = "placement" /\ Placement!PlacementNext
        \/ part = "admission" /\ Admission!PlacementNext
        \/ part = "record" /\ Placement!RecordNext
        \/ part = "gateway_metrics" /\ GatewayMetrics!Next
        \/ part = "node_metrics" /\ NodeMetrics!Next
        \/ part = "gpu_metrics" /\ GpuMetrics!Next
        \/ part = "monitor" /\ Tools!MonitorNext
        \/ part = "long_monitor" /\ TwoTools!MonitorNext
        \/ part = "tools" /\ Tools!ToolNext
        \/ part = "node_tools" /\ NodeTools!ToolNext
        \/ part = "two_tools" /\ TwoTools!ToolNext

Others == /\ IF part \in Meshed THEN TRUE ELSE UNCHANGED vars
          /\ IF part \in Contained THEN TRUE ELSE UNCHANGED runtime_vars
          /\ IF part = "config" THEN TRUE ELSE UNCHANGED config_vars
          /\ IF part = "fake" THEN TRUE ELSE UNCHANGED fake_vars
          /\ IF part = "cli" THEN TRUE ELSE UNCHANGED cli_vars
          /\ IF part \in Scheduled THEN TRUE ELSE UNCHANGED scheduling_vars
          /\ IF part = "record" THEN TRUE ELSE UNCHANGED record_vars
          /\ IF part \in Scheduled \cup {"record"} THEN TRUE ELSE UNCHANGED now
          /\ IF part \in Metered THEN TRUE ELSE UNCHANGED metrics_vars
          /\ IF part \in Monitored THEN TRUE ELSE UNCHANGED monitor_vars
          /\ IF part \in Plugged THEN TRUE ELSE UNCHANGED tools_vars

ControlNext == Step /\ Others /\ UNCHANGED part

\* Only actions of the part in question are ever enabled.
ControlSpec == /\ ControlInit /\ [][ControlNext]_all_vars
               /\ LogStreams!Fairness /\ CliFairness

-----------------------------------------------------------------------------
\* Every part keeps its types.
ControlTypeOK == /\ part # "long_mesh" => TypeOK
                 /\ Runtime!TypeOK /\ Fake!FakeTypeOK /\ CliTypeOK /\ Placement!RecordTypeOK
                 /\ part = "placement" => Placement!PlacementTypeOK
                 /\ part = "admission" => Admission!PlacementTypeOK
                 /\ part = "gateway_metrics" => GatewayMetrics!TypeOK
                 /\ part = "node_metrics" => NodeMetrics!TypeOK
                 /\ part = "gpu_metrics" => GpuMetrics!TypeOK
                 /\ IF part = "long_monitor" THEN TwoTools!MonitorTypeOK ELSE Tools!MonitorTypeOK
                 /\ IF part = "two_tools" THEN TwoTools!ToolTypeOK ELSE Tools!ToolTypeOK

\* What a node gains never costs it a workload (with_gpu, with_condition).  claw_deploy
\* takes a node that fits, and none that another beats in every respect.
PlacementRight ==
    [][/\ part = "placement" => Placement!MoreIsNoWorse
       /\ part = "admission" => Admission!MoreIsNoWorse
       /\ part = "tools" => Tools!DeployUndominated
       /\ part = "node_tools" => NodeTools!DeployUndominated
       /\ part = "two_tools" => TwoTools!DeployUndominated]_all_vars

\* What is reported is what happened: the status of a workload tells when it first ran
\* and whether and when it ended, a scrape of the metrics leaves out no series and
\* shows no counter lower than the scrape before, the monitor's transitions of a node
\* follow on one another, and the plugin's tools report what the nodes did.
ReportsAreTrue == /\ Placement!StatusTellsTheRun
                  /\ part = "gateway_metrics" => GatewayMetrics!ScrapesAreWhole
                  /\ part = "node_metrics" => NodeMetrics!ScrapesAreWhole
                  /\ part = "gpu_metrics" => GpuMetrics!ScrapesAreWhole
                  /\ Tools!TransitionsFollow
                  /\ IF part = "two_tools" THEN TwoTools!ToolsTellTruth ELSE Tools!ToolsTellTruth

\* A container is given exactly the GPUs its spec names (docker.rs, runtime.rs), and
\* Docker is asked for what the builder calls of config.rs said; the allocator has given a
\* container all the GPUs of what it granted (allocate); and match_requirement takes the
\* first requirement of a chain that the node can meet, and GPUs that meet it.
ContainersAsAsked == /\ Runtime!GpusPassedExactly /\ Config!RequestFollowsCalls
                     /\ Fake!AllocatedWhole
                     /\ part = "placement" => Placement!FindsTheFirstFit

\* "Request a specific number of GPUs" (GpuRequirements::count, config.rs): of a configuration
\* made with count(n), create asks Docker for n GPUs.
CountedGpusGiven == Config!CountsGiven

\* Docker behind the node's runtime, and the runtime the tests put in its place, implement
\* one contract: an id names one container, with its GPUs, and comes and goes once.
RuntimesKeepContract == Runtime!KeepsContract /\ Fake!KeepsContract

\* Log streams end, and every request of the command-line tool that has a timeout ends with
\* an answer, an error or that timeout.  A workload submitted by `run` has none
\* (RunCommand::submit_workload waits for an answer or a closed connection) and may not end.
WaitsEnd == LogStreams!StreamsEnd /\ RequestsEnd
=============================================================================
