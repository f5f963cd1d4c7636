---------------------------- MODULE MCNodeStores ----------------------------
(***************************************************************************)
(* The commands of a node that work on JSON-backed stores.  Every family   *)
(* of commands has stores, live state and kernel state of its own, so that *)
(* what holds of a family while the others stand still holds in every      *)
(* interleaving; each behaviour here moves one of them, `part`.  Families  *)
(* that are too large for one instance are taken in two or three.          *)
(* A constant of RecordCommands that an instance does not name is empty:   *)
(* it moves one family of that module.                                     *)
(***************************************************************************)
EXTENDS RecordCommands, WorkloadCommands

CONSTANT Parts

VARIABLES part,
          data, gpu_data, arrived,
          sd, pe, routes, nat, filter, enforced, sent

credential_history == <<hostname, daemon_host, may_hold, revoked>>
metric_vars == <<data, gpu_data, arrived>>
network_vars == <<sd, pe, routes, nat, filter, enforced, sent>>

all_vars == <<part, store_vars, manual_runs, credential_history, archives, metric_vars,
              containers, net, runs, up, network_vars>>

AnyFault == {"save", "crash"}

-----------------------------------------------------------------------------
Batch == INSTANCE RecordCommands WITH
    Procs <- {"daemon"}, Faults <- AnyFault, MaxTime <- 1, JobNames <- {"j"},
    CronNames <- {"c"}, Images <- {"i"}, Counts <- {1}

\* The same beside a `clawnode exec` process.
BatchExec == INSTANCE RecordCommands WITH
    Procs <- {"daemon", "exec"}, Faults <- AnyFault, MaxTime <- 0, JobNames <- {"j"},
    CronNames <- {"c"}, Images <- {"i"}, Counts <- {1}

\* A limit, two whitelists that admit different images, a required label.
rule(g, p, k) == [maxGpus |-> g, maxMemoryMb |-> {}, pattern |-> p, key |-> k]
policy(t, r) == [type |-> t, rules |-> {r}, enabled |-> TRUE]

Tenancy == INSTANCE RecordCommands WITH
    Procs <- {"daemon"}, Faults <- AnyFault, MaxTime <- 0, Namespaces <- {"n"},
    Labels <- {"team"}, TaintEffects <- {"NoSchedule", "x"}, PolicyNames <- {"p1", "p2"},
    Policies <- {policy("resource-limit", rule({1}, {}, {})),
                 policy("image-whitelist", rule({}, {<<"a">>}, {})),
                 policy("image-whitelist", rule({}, {<<"b">>}, {})),
                 policy("label-required", rule({}, {}, {"team"}))},
    Specs <- [gpus : {{}, {2}}, memoryMb : {{}}, image : {{}, {<<"a", "x">>}},
              labels : {{}, {"team"}}],
    MaxTaints <- 1

Secret == INSTANCE RecordCommands WITH
    Procs <- {"daemon"}, Faults <- AnyFault, MaxTime <- 0, Secrets <- {"s"},
    Values <- {"v1", "v2"}, Hosts <- {"h1", "h2"}

Auth == INSTANCE RecordCommands WITH
    Procs <- {"daemon"}, Faults <- AnyFault, MaxTime <- 1, Hosts <- {"h1"},
    KeyIds <- {"k1", "k2"}, MaxAudit <- 3

Config == INSTANCE RecordCommands WITH
    Procs <- {"daemon"}, Faults <- AnyFault, MaxTime <- 1, ConfigNames <- {"a"},
    Data <- {"d1", "d2"}

Autoscale == INSTANCE RecordCommands WITH
    Procs <- {"daemon"}, Faults <- AnyFault, MaxTime <- 0, AutoscaleNames <- {"a"}, Replicas <- {1, 2}

Storage == INSTANCE RecordCommands WITH
    Procs <- {"daemon"}, Faults <- {"save", "crash"}, MaxTime <- 1, Volumes <- {"v"},
    Containers <- {"c1", "c2"}, VolumeTypes <- {"hostpath"}, MaxBackups <- 1

Metric == INSTANCE MetricCommands WITH
    Procs <- {"daemon"}, Faults <- {"crash"}, MaxTime <- 2, Gpus <- {"g"},
    Readings <- {[used |-> 1, total |-> 1], [used |-> 0, total |-> 0]}, Alerts <- {"a"},
    Conditions <- {"above", "other"}, Retention <- 1, MaxPoints <- 2, Queried <- {"gpu"}

-----------------------------------------------------------------------------
Workload == INSTANCE WorkloadCommands WITH
    Procs <- {"daemon"}, Faults <- {"crash"}, MaxTime <- 0, Sdk <- FALSE,
    ContainerNames <- {"n"}, LastSuffix <- 3, MaxRuns <- 2

SdkWorkload == INSTANCE WorkloadCommands WITH
    Procs <- {"daemon"}, Faults <- {"crash"}, MaxTime <- 0, Sdk <- TRUE,
    ContainerNames <- {"n"}, LastSuffix <- 2, MaxRuns <- 2

PortRule(f, c, p) == [from |-> f, cidr |-> c, port |-> p]
Policy(n, s, i, e) == [name |-> n, selector |-> s, ingress |-> i, egress |-> e]
Running(i, l) == [ip |-> i, labels |-> {l}]
Route(h, p, s) == [host |-> h, path |-> p, service |-> s]

\* One service with two backends, whose VIP range has room for three.
Service == INSTANCE NetworkCommands WITH
    Procs <- {"daemon"}, Faults <- {}, MaxTime <- 0, ServiceNames <- {"s1"}, Ingresses <- {},
    Policies <- {}, Selectors <- {{"app"}}, Ips <- {"i1", "i2"},
    Workloads <- {Running("i1", "app"), Running("i2", "app")}, Ports <- {80, 81},
    Requests <- {}, LastVip <- 3, MaxConnections <- 3, MaxRules <- 2

\* Policies of which one's name is a prefix of another's; a port beyond 16 bits.
Isolation == INSTANCE NetworkCommands WITH
    Procs <- {"daemon"}, Faults <- {}, MaxTime <- 0, ServiceNames <- {}, Ingresses <- {},
    Policies <- {Policy(<<"web">>, {"app"}, <<PortRule({{"db"}}, {}, {80})>>, <<>>),
                 Policy(<<"web", "2">>, {"db"}, <<>>, <<>>),
                 Policy(<<"x">>, {"app"}, <<PortRule({}, {{"i3"}}, {}), PortRule({}, {}, {81 + 65536})>>,
                        <<PortRule({}, {}, {})>>)},
    Selectors <- {}, Ips <- {"i1", "i2", "i3"},
    Workloads <- {Running("i1", "app"), Running("i2", "app"), Running("i3", "db")},
    Ports <- {80, 81}, Requests <- {}, LastVip <- 1, MaxConnections <- 0, MaxRules <- 0

Ingress == INSTANCE NetworkCommands WITH
    Procs <- {"daemon"}, Faults <- AnyFault, MaxTime <- 0, ServiceNames <- {"s1"},
    Ingresses <- {[name |-> "g1", rules |-> <<Route("h", <<"a">>, "s1")>>],
                  [name |-> "g2", rules |-> <<Route("h", <<"a", "b">>, "s2"),
                                              Route("h", <<"a">>, "s2")>>]},
    Policies <- {}, Selectors <- {{"app"}}, Ips <- {}, Workloads <- {}, Ports <- {80},
    Requests <- {[host |-> "h", path |-> <<"a", "b">>], [host |-> "x", path |-> <<>>]},
    LastVip <- 3, MaxConnections <- 0, MaxRules <- 0

-----------------------------------------------------------------------------
Batches == {"batch", "batch_exec"}
Credentials == {"secret", "auth"}
WorkloadParts == {"workload", "sdk_workload"}
Network == {"service", "isolation", "ingress"}

\* The variables of the families that stand still have no meaning and keep one value.
Init ==
    /\ part \in Parts
    /\ IF part \in Batches THEN Batch!BatchInit ELSE manual_runs = "-"
    /\ CASE part = "secret" -> Secret!CredentialInit
         [] part = "auth" -> Auth!CredentialInit
         [] OTHER -> hostname = "-" /\ daemon_host = "-" /\ may_hold = "-" /\ revoked = "-"
    /\ CASE part = "tenancy" -> Tenancy!TenancyInit
         [] part = "config" -> Config!SettingInit
         [] part = "autoscale" -> Autoscale!SettingInit
         [] OTHER -> TRUE
    /\ IF part = "storage" THEN Storage!StorageInit ELSE archives = "-"
    /\ IF part = "metric" THEN Metric!Init ELSE data = "-" /\ gpu_data = "-" /\ arrived = "-"
    /\ IF part \in WorkloadParts THEN Workload!WorkloadInit
       ELSE containers = "-" /\ net = "-" /\ runs = "-" /\ up = "-"
    /\ CASE part = "service" -> Service!Init
         [] part = "isolation" -> Isolation!Init
         [] part = "ingress" -> Ingress!Init
         [] OTHER -> /\ sd = "-" /\ pe = "-" /\ routes = "-" /\ nat = "-" /\ filter = "-"
                     /\ enforced = "-" /\ sent = "-"

Step == \/ part = "batch" /\ Batch!BatchNext
        \/ part = "batch_exec" /\ BatchExec!BatchNext
        \/ part = "tenancy" /\ Tenancy!TenancyNext
        \/ part = "secret" /\ Secret!CredentialNext
        \/ part = "auth" /\ Auth!CredentialNext
        \/ part = "config" /\ Config!SettingNext
        \/ part = "autoscale" /\ Autoscale!SettingNext
        \/ part = "storage" /\ Storage!StorageNext
        \/ part = "metric" /\ Metric!Next
        \/ part = "workload" /\ Workload!WorkloadNext
        \/ part = "sdk_workload" /\ SdkWorkload!WorkloadNext
        \/ part = "service" /\ Service!Next
        \/ part = "isolation" /\ Isolation!Next
        \/ part = "ingress" /\ Ingress!Next

Others == /\ IF part \in Batches THEN TRUE ELSE UNCHANGED manual_runs
          /\ IF part \in Credentials THEN TRUE ELSE UNCHANGED credential_history
          /\ IF part = "storage" THEN TRUE ELSE UNCHANGED archives
          /\ IF part = "metric" THEN TRUE ELSE UNCHANGED metric_vars
          /\ IF part \in WorkloadParts THEN TRUE ELSE UNCHANGED <<containers, net, runs, up>>
          /\ IF part \in Network THEN TRUE ELSE UNCHANGED network_vars

Next == Step /\ Others /\ UNCHANGED part

Spec == Init /\ [][Next]_all_vars

-----------------------------------------------------------------------------
\* The stores and the live state of every family keep their types.
TypeOK == CASE part = "batch" -> Batch!BatchTypeOK
            [] part = "batch_exec" -> BatchExec!BatchTypeOK
            [] part = "tenancy" -> Tenancy!TenancyTypeOK
            [] part = "secret" -> Secret!CredentialTypeOK
            [] part = "auth" -> Auth!CredentialTypeOK
            [] part = "config" -> Config!SettingTypeOK
            [] part = "autoscale" -> Autoscale!SettingTypeOK
            [] part = "storage" -> Storage!StorageTypeOK
            [] part = "metric" -> Metric!TypeOK
            [] part = "workload" -> Workload!WorkloadTypeOK
            [] part = "sdk_workload" -> SdkWorkload!WorkloadTypeOK
            [] part = "service" -> Service!TypeOK
            [] part = "isolation" -> Isolation!TypeOK
            [] part = "ingress" -> Ingress!TypeOK

\* What a record promises stands until it is taken back: a workload that
\* policy.validate rejects stays rejected whatever policies are added, an immutable
\* config keeps its data, a mounted volume is neither deleted nor mounted elsewhere,
\* across restarts and crashes of a daemon whose snapshots all reached the disk.  A crash
\* that tears the file loses every rejection or mount at once, in that step and no
\* other.  And what a starting node records as running ran (reconcile_workloads).
RecordsStand == [][/\ part = "tenancy" => Tenancy!RejectionsStand
                   /\ part = "config" => Config!ImmutableStands
                   /\ part = "storage" => Storage!MountsStand
                   /\ part \in WorkloadParts => ReconciledTruly]_all_vars

\* A series holds every point of the retention time in order and as often as it was
\* pushed, and after an evaluation an alert fires exactly when the newest values call
\* for it (MetricStore::push, AlertStore::evaluate).
MetricsTold == part = "metric" => Metric!RetainsExactly /\ Metric!AlertsFollowMetrics

\* Service discovery and the compiled policies follow the stores, the DNAT rules of a
\* VIP share its connections evenly, and a workload that a policy selects gets nothing
\* that no policy allows (service.*, network_policy.*).
NetworkFollowsStore ==
    /\ part = "service" => Service!DiscoveryFollowsStore /\ Service!SharesEvenly
    /\ part = "isolation" => Isolation!DiscoveryFollowsStore /\ Isolation!DefaultDeny
    /\ part = "ingress" => Ingress!DiscoveryFollowsStore
=============================================================================
