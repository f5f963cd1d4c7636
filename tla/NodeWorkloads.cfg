\* Three workloads compete for three GPUs; a request can be zero, fit, exceed what
\* is left, exceed the node and exceed the validation limit.
SPECIFICATION Spec
CONSTANTS
    WorkloadIds = {w1, w2, w3}
    TotalGpus = 3
    MAX_GPU_COUNT = 4
    GpuCounts = {0, 1, 2, 5}
    GpuRequirements = {{}, {5}}
    MaxContainers = 3
INVARIANTS
    TypeOK
    LedgerFitsWorkloads
    GpuExclusive
    SharedGpuOnlyWithAbandoned
