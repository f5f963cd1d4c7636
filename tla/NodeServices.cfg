SPECIFICATION ServicesSpec
CONSTANTS
    i1 = i1
    i2 = i2
    web = web
    v1 = v1
    v2 = v2
    Invokes = {i1, i2}
    Capacity = 2
    Burst = 2
    MaxSends = 2
    MaxInbox = 2
    Names = {web}
    Images = {v1, v2}
    MaxReplicas = 2
    MaxRevision = 3
    MaxIds = 4
    Faults = {"start", "created", "remove", "save", "crash"}
    MaxFaults = 2
INVARIANTS
    ResultsInOrder
    OldReplicasKeepRunning
    RecordsTrue
PROPERTIES
    ClientProgresses
