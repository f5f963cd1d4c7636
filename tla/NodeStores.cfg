SPECIFICATION Spec
CONSTANTS
    Parts = {"batch", "batch_exec", "tenancy", "secret", "auth", "config", "autoscale", "storage",
             "metric", "workload", "sdk_workload", "service", "isolation", "ingress"}
    Procs = {"daemon"}
    Faults = {"save", "crash"}
    MaxTime = 1
    JobNames = {}
    CronNames = {}
    Images = {}
    Counts = {}
    Namespaces = {}
    Labels = {}
    TaintEffects = {}
    PolicyNames = {}
    Policies = {}
    Specs = {}
    MaxTaints = 0
    ConfigNames = {}
    Data = {}
    AutoscaleNames = {}
    Replicas = {}
    Volumes = {}
    Containers = {}
    VolumeTypes = {}
    MaxBackups = 0
    Secrets = {}
    Values = {}
    Hosts = {}
    KeyIds = {}
    MaxAudit = 0
    Sdk = FALSE
    ContainerNames = {}
    LastSuffix = 3
    MaxRuns = 0
INVARIANTS
    TypeOK
    CronRunsAreJobs
    CredentialsHold
    MetricsTold
    WorkloadRecordsTrue
    NetworkFollowsStore
PROPERTIES
    RecordsStand
CHECK_DEADLOCK FALSE
