----------------------------- MODULE Prometheus -----------------------------
(***************************************************************************)
(* The Prometheus registry of crates/claw-metrics/src/prometheus.rs.  The  *)
(* clones of a registry share its metrics; every update is one atomic      *)
(* operation on one series, and a scrape encodes the series one after the  *)
(* other while other threads keep updating them.                           *)
(***************************************************************************)
EXTENDS Integers, Sequences, SequencesExt

CONSTANTS States,        \* workload states, the label of workloads_total
          Nodes, Gpus, Workloads,   \* the other labels
          Half,          \* stands for 2^63: a gauge is an i64, a count a u64
          Counts,        \* counts that are set, a subset of 0 .. 2 * Half - 1
          Utilizations,  \* utilizations that are set, in thousandths of a percent
          Durations,     \* buckets a scheduling duration falls into
          Most           \* bound on what is counted up or down

VARIABLES metrics,  \* metric -> the series there are -> value
          scrape,   \* the encoding in progress: metrics to come, series left of the first one
          body,     \* what it has written: metric -> series -> value
          before    \* history: the series, and the counters, when it began

vars == <<metrics, scrape, body, before>>

Order == <<"nodes_total", "workloads_total", "scheduling_duration_seconds",
           "gpu_utilization_percent", "memory_usage_bytes", "container_count",
           "container_restarts_total">>
Metrics == ToSet(Order)

WorkloadStateLabels == [state : States]
GpuLabels == [node_id : Nodes, gpu_id : Gpus]
NodeLabels == [node_id : Nodes]
ContainerLabels == [node_id : Nodes, workload_id : Workloads]
Buckets == [bucket : Durations]
NoLabels == [none : {"none"}]

Labels == [m \in Metrics |->
    CASE m = "nodes_total" -> NoLabels
      [] m = "workloads_total" -> WorkloadStateLabels
      [] m = "scheduling_duration_seconds" -> Buckets
      [] m = "gpu_utilization_percent" -> GpuLabels
      [] m = "container_restarts_total" -> ContainerLabels
      [] OTHER -> NodeLabels]

TypeOK == /\ \A m \in Metrics : /\ DOMAIN metrics[m] \subseteq Labels[m]
                                /\ DOMAIN body[m] \subseteq Labels[m]
          /\ IsSuffix(scrape.todo, Order)

Idle == [todo |-> <<>>, left |-> {}]

-----------------------------------------------------------------------------
\* `as i64`.
as_i64(n) == IF n >= Half THEN n - 2 * Half ELSE n

\* Family::get_or_create: a new series starts at zero.  While a family is being
\* encoded its map is locked, and a new series has to wait.
encoding(m) == scrape.todo # <<>> /\ Head(scrape.todo) = m

get_or_create(m, l) == ~ (encoding(m) /\ l \notin DOMAIN metrics[m])

value(m, l) == IF l \in DOMAIN metrics[m] THEN metrics[m][l] ELSE 0

set(m, l, v) ==
    /\ get_or_create(m, l)
    /\ metrics' = [metrics EXCEPT ![m] =
                      [x \in DOMAIN @ \cup {l} |-> IF x = l THEN v ELSE @[x]]]
    /\ UNCHANGED <<scrape, body, before>>

inc(m, l) == value(m, l) < Most /\ set(m, l, value(m, l) + 1)
dec(m, l) == value(m, l) > -Most /\ set(m, l, value(m, l) - 1)
\* A getter creates the series it reads, and casts its value to u64.
get(m, l) == set(m, l, value(m, l))

-----------------------------------------------------------------------------
\* GatewayMetrics
TheNodes == CHOOSE l \in NoLabels : TRUE

set_nodes_total(n) == set("nodes_total", TheNodes, as_i64(n))
get_nodes_total == get("nodes_total", TheNodes)
inc_nodes == inc("nodes_total", TheNodes)
dec_nodes == dec("nodes_total", TheNodes)

set_workloads_total(l, n) == set("workloads_total", l, as_i64(n))
inc_workloads_total(l) == inc("workloads_total", l)
dec_workloads_total(l) == dec("workloads_total", l)
get_workloads_total(l) == get("workloads_total", l)

observe_scheduling_duration(l) == inc("scheduling_duration_seconds", l)

\* NodeMetrics
set_gpu_utilization(l, u) == set("gpu_utilization_percent", l, u \div 10)
get_gpu_utilization(l) == get("gpu_utilization_percent", l)
set_memory_usage(l, n) == set("memory_usage_bytes", l, as_i64(n))
get_memory_usage(l) == get("memory_usage_bytes", l)
set_container_count(l, n) == set("container_count", l, as_i64(n))
get_container_count(l) == get("container_count", l)
inc_container_count(l) == inc("container_count", l)
dec_container_count(l) == dec("container_count", l)

inc_container_restarts(l) == inc("container_restarts_total", l)
get_container_restarts(l) == get("container_restarts_total", l)

gateway_step ==
    \/ get_nodes_total \/ inc_nodes \/ dec_nodes
    \/ \E n \in Counts : set_nodes_total(n)
    \/ \E l \in WorkloadStateLabels :
          \/ inc_workloads_total(l) \/ dec_workloads_total(l) \/ get_workloads_total(l)
          \/ \E n \in Counts : set_workloads_total(l, n)
    \/ \E l \in Buckets : observe_scheduling_duration(l)

node_step ==
    \/ \E l \in GpuLabels : \/ get_gpu_utilization(l)
                            \/ \E u \in Utilizations : set_gpu_utilization(l, u)
    \/ \E l \in NodeLabels :
          \/ get_memory_usage(l) \/ get_container_count(l)
          \/ inc_container_count(l) \/ dec_container_count(l)
          \/ \E n \in Counts : set_memory_usage(l, n) \/ set_container_count(l, n)
    \/ \E l \in ContainerLabels : inc_container_restarts(l) \/ get_container_restarts(l)

-----------------------------------------------------------------------------
\* MetricsHandler::handle: encode goes through the metrics in the order they
\* were registered, and through the series of a family in any order.
Nothing == [m \in Metrics |-> <<>>]

Counters == {"container_restarts_total", "scheduling_duration_seconds"}
noted(m) == IF m \in Counters THEN metrics[m] ELSE [l \in DOMAIN metrics[m] |-> 0]

handle == /\ scrape = Idle
          /\ scrape' = [todo |-> Order, left |-> DOMAIN metrics[Order[1]]]
          /\ body' = Nothing /\ before' = [m \in Metrics |-> noted(m)]
          /\ UNCHANGED metrics

\* Variant: the first series ends its family.
encode_first_series ==
    /\ scrape.todo # <<>>
    /\ LET m == Head(scrape.todo) IN
       \E l \in scrape.left :
          /\ body' = [body EXCEPT ![m] = [x \in {l} |-> metrics[m][l]]]
          /\ scrape' = [scrape EXCEPT !.left = {}]
    /\ UNCHANGED <<metrics, before>>

encode_series ==
    /\ scrape.todo # <<>>
    /\ LET m == Head(scrape.todo) IN
       \E l \in scrape.left :
          /\ body' = [body EXCEPT ![m] =
                         [x \in DOMAIN @ \cup {l} |-> IF x = l THEN metrics[m][l] ELSE @[x]]]
          /\ scrape' = [scrape EXCEPT !.left = @ \ {l}]
    /\ UNCHANGED <<metrics, before>>

\* The last metric ends the response.
next_metric ==
    /\ scrape.todo # <<>> /\ scrape.left = {}
    /\ LET todo == Tail(scrape.todo) IN
       IF todo = <<>> THEN scrape' = Idle /\ body' = Nothing /\ before' = Nothing
       ELSE scrape' = [todo |-> todo, left |-> DOMAIN metrics[Head(todo)]] /\ UNCHANGED <<body, before>>
    /\ UNCHANGED metrics

\* PrometheusRegistry::new: a gauge of its own is there from the start, a family
\* has no series yet.
Init == /\ metrics = [Nothing EXCEPT !["nodes_total"] = [l \in NoLabels |-> 0]]
        /\ scrape = Idle /\ body = Nothing /\ before = Nothing

Next == gateway_step \/ node_step \/ handle \/ encode_series \/ next_metric

Spec == Init /\ [][Next]_vars

-----------------------------------------------------------------------------
written(m) == /\ encoding(m) => scrape.left = {}
              /\ \A i \in 2 .. Len(scrape.todo) : scrape.todo[i] # m

\* However updates interleave with it, a scrape leaves out no series that was
\* there when it began, and shows each counter at a value it had meanwhile: at
\* least where it stood at the beginning and at most where it stands now, so
\* that from one scrape to the next no counter falls (encode,
\* inc_container_restarts, observe_scheduling_duration).
ScrapesAreWhole ==
    scrape # Idle =>
    \A m \in Metrics :
        /\ written(m) => DOMAIN before[m] \subseteq DOMAIN body[m]
        /\ m \in Counters =>
              \A l \in DOMAIN body[m] :
                  /\ body[m][l] <= metrics[m][l]
                  /\ l \in DOMAIN before[m] => before[m][l] <= body[m][l]

\* "Value is always non-negative" (prometheus.rs:143, :185, :333): a gauge is
\* never below zero when a getter casts it to u64.
NonNegative == \A m \in Metrics : \A l \in DOMAIN metrics[m] : metrics[m][l] >= 0
=============================================================================
