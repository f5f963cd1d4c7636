--------------------------- MODULE MetricCommands ---------------------------
(***************************************************************************)
(* crates/claw-metrics, and the metrics.*, events.* and alerts.* commands  *)
(* of crates/clawnode/src/metrics_cmd.rs.  A metric is a series of points  *)
(* in memory, kept in order of time and for a retention time; events are   *)
(* the points of a series of their own; alerts are rules in a JSON store.  *)
(* A `clawnode exec` process has a metric store of its own, which dies     *)
(* with it.                                                                *)
(***************************************************************************)
EXTENDS JsonStore, SequencesExt, Integers

CONSTANTS Gpus, Readings, Alerts, Conditions, Retention, MaxPoints,
          Queried     \* the metrics that are asked for

VARIABLES data,       \* the daemon's MetricStore: name -> series
          gpu_data,   \* GpuMetricCollector: gpu -> its last reading
          arrived     \* history: name -> the points pushed, in order of arrival

metric_vars == <<store_vars, data, gpu_data, arrived>>

\* The points of a collector's several metrics are alike: one name for each.
Names == {"gpu", "system", "_events"}
Severities == {"info", "other"}

MetricPoint == [timestamp : 0 .. MaxTime, value : Int, labels : Gpus \cup Severities \cup {"none"}]
AlertRule == [metric : Names, condition : {"above", "below"}, threshold : Int,
              state : {"ok", "firing", "acknowledged"}, updated_at : 0 .. MaxTime]

TypeOK == /\ DOMAIN mem = {"alerts"} /\ DOMAIN disk = {"alerts"}
          /\ \A m \in {mem, disk} : \A a \in DOMAIN m.alerts : m.alerts[a] \in AlertRule
          /\ DOMAIN data \subseteq Names
          /\ \A n \in DOMAIN data : \A i \in DOMAIN data[n] : data[n][i] \in MetricPoint
          /\ DOMAIN gpu_data \subseteq Gpus

Init == /\ new({"alerts"}) /\ data = EmptyStore /\ gpu_data = EmptyStore
        /\ arrived = [n \in Names |-> <<>>]

-----------------------------------------------------------------------------
\* The store.

series(d, n) == IF n \in DOMAIN d THEN d[n] ELSE <<>>

unexpired(points) == SelectSeq(points, LAMBDA x : x.timestamp >= clock - Retention)

appended(points, x) == {Append(points, x)}

\* Where the binary search may put a point: before any one of those of its time, or
\* after the earlier ones.
inserted(points, x) ==
    LET ties == {i \in DOMAIN points : points[i].timestamp = x.timestamp}
        earlier == {i \in DOMAIN points : points[i].timestamp < x.timestamp}
    IN  {InsertAt(points, i, x) : i \in IF ties # {} THEN ties ELSE {Cardinality(earlier) + 1}}

\* What the series may be after some points are pushed, each after expiry.
pushed(points, xs) ==
    FoldLeft(LAMBDA S, x : UNION {inserted(unexpired(s), x) : s \in S}, {points}, xs)

arrivals == FoldFunction(LAMBDA s, n : Len(s) + n, 0, arrived)

\* push_batch: the points of each name, in order.
push_batch(batch) ==
    /\ arrivals + FoldFunction(LAMBDA s, n : Len(s) + n, 0, batch) <= MaxPoints
    /\ \E after \in [DOMAIN batch -> UNION {pushed(series(data, n), batch[n]) : n \in DOMAIN batch}] :
          /\ \A n \in DOMAIN batch : after[n] \in pushed(series(data, n), batch[n])
          /\ data' = [n \in DOMAIN data \cup DOMAIN batch |->
                          IF n \in DOMAIN batch THEN after[n] ELSE data[n]]
    /\ arrived' = [n \in Names |-> arrived[n] \o series(batch, n)]

push(n, x) == push_batch([m \in {n} |-> <<x>>])

\* The points of the range, oldest first; a metric that is not there is an error.
in_range(d, n, start, end) ==
    SelectSeq(d[n], LAMBDA x : start <= x.timestamp /\ x.timestamp <= end)

values(points) == [i \in DOMAIN points |-> points[i].value]

total(vs) == FoldSeq(+, 0, vs)

\* Aggregation::apply; the mean as a fraction.
aggregate(agg, vs) ==
    IF vs = <<>> THEN {}
    ELSE {CASE agg = "sum" -> total(vs)
            [] agg = "avg" -> <<total(vs), Len(vs)>>
            [] agg = "min" -> Min(Range(vs))
            [] agg = "max" -> Max(Range(vs))
            [] agg = "last" -> Last(vs)
            [] agg = "count" -> Len(vs)}

query(d, n, start, end, agg) ==
    LET points == in_range(d, n, start, end) IN
    IF agg = "none" THEN points
    ELSE SetToSeq({[timestamp |-> Last(points).timestamp, value |-> v, labels |-> "none"] :
                      v \in aggregate(agg, values(points))})

\* The last 24 hours, which is the node's retention too.
last_value(d, n) ==
    IF n \notin DOMAIN d THEN {}
    ELSE {x.value : x \in Range(query(d, n, clock - Retention, clock, "last"))}

unchanged_store == respond(NoReply) /\ UNCHANGED gpu_data

remove_metric(n) == /\ data' = Drop(data, n) /\ arrived' = [arrived EXCEPT ![n] = <<>>]
                    /\ unchanged_store

clear == /\ data' = EmptyStore /\ arrived' = [n \in Names |-> <<>>]
         /\ unchanged_store

\* A series that becomes empty goes too.
expire_old_data ==
    LET kept == [n \in DOMAIN data |-> unexpired(data[n])] IN
    /\ data' = [n \in {m \in DOMAIN data : kept[m] # <<>>} |-> kept[n]]
    /\ UNCHANGED arrived /\ unchanged_store

-----------------------------------------------------------------------------
\* The query helpers of query.rs; a fraction is a pair.

over(n, d, agg) == {x.value : x \in Range(query(data, n, clock - d, clock, agg))}

ends(n, d) == LET points == query(data, n, clock - d, clock, "none")
              IN  IF Len(points) < 2 THEN {} ELSE {<<Head(points), Last(points)>>}

rate(n, d) == {<<e[2].value - e[1].value, e[2].timestamp - e[1].timestamp>> :
                  e \in {e \in ends(n, d) : e[2].timestamp > e[1].timestamp}}

percentage_change(n, d) == {<<(e[2].value - e[1].value) * 100, e[1].value>> :
                               e \in {e \in ends(n, d) : e[1].value # 0}}

count_over(n, d) == over(n, d, "count")

points_with_filter(n, d, label) ==
    SelectSeq(query(data, n, clock - d, clock, "none"), LAMBDA x : label \in {"any", x.labels})

\* QueryBuilder::execute: the filters apply before the aggregation.
execute(n, d, label, agg) == aggregate(agg, values(points_with_filter(n, d, label)))

use_queries(n, d, label) ==
    /\ n \in DOMAIN data
    /\ respond(Ok("query", [rate |-> rate(n, d), change |-> percentage_change(n, d),
                            count |-> count_over(n, d), mean |-> execute(n, d, label, "avg")]))
    /\ UNCHANGED <<data, gpu_data, arrived>>

-----------------------------------------------------------------------------
\* The collectors.

update_gpu(g, info) == /\ gpu_data' = Put(gpu_data, g, info)
                       /\ UNCHANGED <<store_vars, data, arrived>>

remove_gpu(g) == /\ gpu_data' = Drop(gpu_data, g) /\ UNCHANGED <<store_vars, data, arrived>>

\* The share of the memory in use, zero for a device that reports none.
memory_percent(info) == IF info.total = 0 THEN 0 ELSE (info.used * 100) \div info.total

point(v, l) == [timestamp |-> clock, value |-> v, labels |-> l]

\* One point for each GPU, in any order and all of the same time.
GpuMetricCollector_collect(order) ==
    [n \in {"gpu"} |-> [i \in DOMAIN order |-> point(memory_percent(gpu_data[order[i]]), order[i])]]

SystemMetricCollector_collect(info) == [n \in {"system"} |-> <<point(memory_percent(info), "none")>>]

\* CompositeCollector::collect and collect_and_push.
collect_and_push(info) ==
    /\ \E order \in SetToSeqs(DOMAIN gpu_data) :
          push_batch(IF order = <<>> THEN SystemMetricCollector_collect(info)
                     ELSE SystemMetricCollector_collect(info) @@ GpuMetricCollector_collect(order))
    /\ unchanged_store

\* The node's own collection, pushed one by one: its memory when it is known, and a
\* reading of each of its GPUs.
collect_system_metrics(info) ==
    LET system == IF info.total = 0 THEN <<>> ELSE SystemMetricCollector_collect(info)
        gpus == SetToSeq({point(memory_percent(info), g) : g \in Gpus})
    IN  push_batch(system @@ [n \in {"gpu"} |-> gpus]) /\ unchanged_store

-----------------------------------------------------------------------------
\* The commands.

store_of(p) == IF p = "daemon" THEN data ELSE EmptyStore

metrics_query(p, n, d, agg) ==
    respond(IF n \notin DOMAIN store_of(p) THEN Err("metrics.query")
            ELSE Ok("metrics.query", query(store_of(p), n, clock - d, clock, agg)))

metrics_list(p) == respond(Ok("metrics.list", [n \in DOMAIN store_of(p) |-> Len(store_of(p)[n])]))

metrics_snapshot(p) ==
    respond(Ok("metrics.snapshot", [n \in DOMAIN store_of(p) |-> last_value(store_of(p), n)]))

\* The newest first, at most `limit` of them.
events_query(p, d, severity, limit) ==
    LET points == IF "_events" \in DOMAIN store_of(p)
                  THEN in_range(store_of(p), "_events", clock - d, clock) ELSE <<>>
        found == Reverse(SelectSeq(points, LAMBDA x : severity \in {"any", x.labels}))
    IN  respond(Ok("events.query", SubSeq(found, 1, Min({limit, Len(found)}))))

\* The events are told apart by their number.
events_emit(p, severity) ==
    IF severity # "info" THEN respond(Err("events.emit")) /\ UNCHANGED <<data, arrived>>
    ELSE /\ respond(Ok("events.emit", severity))
         /\ IF p = "daemon" THEN push("_events", point(Len(arrived["_events"]), severity))
            ELSE UNCHANGED <<data, arrived>>

AlertStore_create(p, a, rule) == create(p, "alerts", a, rule, "alerts.create")

alerts_create(p, a, metric, condition, threshold) ==
    IF condition \notin {"above", "below"} THEN respond(Err("alerts.create"))
    ELSE AlertStore_create(p, a, [metric |-> metric, condition |-> condition, threshold |-> threshold,
                                  state |-> "ok", updated_at |-> clock])

alerts_list(p) == respond(Ok("alerts.list", view(p).alerts))

AlertStore_acknowledge(p, a) ==
    IF a \in DOMAIN view(p).alerts /\ view(p).alerts[a].state # "firing"
    THEN respond(Err("alerts.acknowledge"))
    ELSE modify(p, "alerts", a, [view(p).alerts[a] EXCEPT !.state = "acknowledged",
                                                          !.updated_at = clock],
                "alerts.acknowledge")

alerts_acknowledge(p, a) == AlertStore_acknowledge(p, a)

is_firing(rule, value) == \/ rule.condition = "above" /\ value > rule.threshold
                          \/ rule.condition = "below" /\ value < rule.threshold

evaluate_or_equal(rule, value) ==
    LET fires == is_firing(rule, value) \/ value = rule.threshold
        state == IF fires THEN "firing" ELSE IF rule.state = "firing" THEN "ok" ELSE rule.state
    IN  IF state = rule.state THEN rule ELSE [rule EXCEPT !.state = state, !.updated_at = clock]

\* An acknowledged alert that still fires is firing again, and one that no longer
\* fires stays acknowledged.
evaluate(rule, value) ==
    LET state == IF is_firing(rule, value) THEN "firing"
                 ELSE IF rule.state = "firing" THEN "ok" ELSE rule.state
    IN  IF state = rule.state THEN rule ELSE [rule EXCEPT !.state = state, !.updated_at = clock]

\* The alerts that change are saved one after the other, in any order.
evaluate_alerts ==
    LET alerts == mem.alerts
        after(a) == IF last_value(data, alerts[a].metric) = {} THEN alerts[a]
                    ELSE evaluate(alerts[a], CHOOSE v \in last_value(data, alerts[a].metric) : TRUE)
        done(some) == [a \in DOMAIN alerts |-> IF a \in some THEN after(a) ELSE alerts[a]]
        changed == {a \in DOMAIN alerts : after(a) # alerts[a]}
    IN  \E order \in SetToSeqs(changed) :
           commit("daemon", [i \in DOMAIN order |->
                               [store |-> "alerts", map |-> done({order[j] : j \in 1 .. i})]],
                  Ok("evaluate", changed))

-----------------------------------------------------------------------------
Aggregations == {"none", "sum", "avg", "min", "max", "last", "count"}

handle_metrics_command(p) ==
    \/ \E n \in Queried, agg \in Aggregations : metrics_query(p, n, 1, agg)
    \/ metrics_list(p) \/ metrics_snapshot(p)
    \/ events_query(p, 1, "any", 2)
    \/ \E a \in Alerts, c \in Conditions : alerts_create(p, a, "gpu", c, 0)
    \/ \E a \in Alerts : alerts_acknowledge(p, a)
    \/ alerts_list(p)

restart_node == restart /\ data' = EmptyStore /\ arrived' = [n \in Names |-> <<>>] /\ gpu_data' = EmptyStore

\* A daemon that dies in a command starts again with an empty metric store.
lost_with_daemon ==
    IF reply'.cmd = "none"
    THEN data' = EmptyStore /\ arrived' = [n \in Names |-> <<>>] /\ gpu_data' = EmptyStore
    ELSE UNCHANGED <<data, arrived, gpu_data>>

\* The collectors push points of the present, other callers points that are late.
Next == \/ \E p \in Procs : /\ handle_metrics_command(p)
                            /\ IF p = "daemon" THEN lost_with_daemon
                               ELSE UNCHANGED <<data, gpu_data, arrived>>
        \/ evaluate_alerts /\ lost_with_daemon
        \/ \E p \in Procs, s \in Severities : events_emit(p, s) /\ UNCHANGED gpu_data
        \/ \E n \in Queried, l \in {"any", "info"} : use_queries(n, 1, l)
        \/ \E g \in Gpus, info \in Readings : update_gpu(g, info)
        \/ \E g \in Gpus : remove_gpu(g)
        \/ \E info \in Readings : collect_and_push(info) \/ collect_system_metrics(info)
        \/ \E n \in Names : remove_metric(n)
        \/ \E v \in {0, 100}, t \in {clock - 1} \cap Nat :
              push("gpu", [timestamp |-> t, value |-> v, labels |-> "none"]) /\ unchanged_store
        \/ clear \/ expire_old_data
        \/ restart_node
        \/ tick /\ UNCHANGED <<data, gpu_data, arrived>>

Spec == Init /\ [][Next]_metric_vars

-----------------------------------------------------------------------------
occurrences(points, x) == Cardinality({i \in DOMAIN points : points[i] = x})

\* A series is in order of time and holds every point of the retention time that
\* was pushed, as often as it was: expiry and insertion lose and repeat nothing,
\* for points that arrive late and points of the same time too.
RetainsExactly ==
    /\ \A n \in DOMAIN data : \A i, j \in DOMAIN data[n] :
          i < j => data[n][i].timestamp <= data[n][j].timestamp
    /\ \A n \in Names : \A x \in Range(arrived[n]) \cup Range(series(data, n)) :
          x.timestamp >= clock - Retention
          => occurrences(series(data, n), x) = occurrences(arrived[n], x)

\* After an evaluation an alert fires exactly when the newest values of its metric
\* call for it, whatever was acknowledged or evaluated before: the value it was
\* compared with is one of those with the latest time.
AlertsFollowMetrics ==
    (reply.cmd = "evaluate" /\ reply.ok) =>
    \A a \in DOMAIN mem.alerts :
        LET rule == mem.alerts[a]
            recent == unexpired(series(data, rule.metric))
            newest == {x \in Range(recent) : \A y \in Range(recent) : x.timestamp >= y.timestamp}
        IN  newest # {} => \E x \in newest : rule.state = "firing" <=> is_firing(rule, x.value)

\* events.query answers with the "Most recent first".
MostRecentFirst ==
    reply.cmd = "events.query" =>
    \A i, j \in DOMAIN reply.value : i < j => reply.value[i].value > reply.value[j].value
=============================================================================
