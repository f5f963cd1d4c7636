---------------------------- MODULE FakeRuntime ----------------------------
(***************************************************************************)
(* FakeContainerRuntime and GpuAllocator, crates/clawnode/src/runtime.rs.  *)
(* The runtime is shared between threads: an id is given out under one     *)
(* lock, the container inserted under another.  The allocator belongs to   *)
(* one thread at a time.                                                   *)
(***************************************************************************)
EXTENDS Naturals, FiniteSets

CONSTANTS Gpus,
          Threads,      \* callers of the runtime
          MaxCreated    \* bound: containers created

VARIABLES containers,   \* id -> Container: [state, gpu_ids]
          next_id,
          creating,     \* creating[t]: {} or what create of thread t is about to insert
          allocations,  \* GpuAllocator: GPU -> container id
          used,         \* history: ids that have been inserted
          granted       \* history: container id -> the GPUs of the allocations granted to it

fake_vars == <<containers, next_id, creating, allocations, used, granted>>

Ids == 1 .. MaxCreated
ContainerState == {"Creating", "Running", "Paused", "Stopping", "Stopped", "Exited", "Failed"}
Container == [state : ContainerState, gpu_ids : SUBSET Gpus]

FakeTypeOK ==
    /\ DOMAIN containers \subseteq Ids /\ \A c \in DOMAIN containers : containers[c] \in Container
    /\ creating \in [Threads -> SUBSET (Ids \X SUBSET Gpus)]
    /\ DOMAIN allocations \subseteq Gpus /\ granted \in [Ids -> SUBSET Gpus]

Insert(f, k, v) == [x \in DOMAIN f \cup {k} |-> IF x = k THEN v ELSE f[x]]
Drop(f, ks) == [x \in DOMAIN f \ ks |-> f[x]]

FakeInit == /\ containers = <<>> /\ next_id = 0 /\ creating = [t \in Threads |-> {}]
            /\ allocations = <<>> /\ used = {} /\ granted = [c \in Ids |-> {}]

is_terminal(state) == state \in {"Stopped", "Exited", "Failed"}

-----------------------------------------------------------------------------
\* Variant: numbered by the containers there are.
generate_id_by_count(n) == Cardinality(DOMAIN containers) + 1

generate_id(n) == n + 1

create(t, gpu_ids) ==
    /\ creating[t] = {} /\ next_id < MaxCreated
    /\ next_id' = generate_id(next_id)
    /\ creating' = [creating EXCEPT ![t] = {<<next_id', gpu_ids>>}]
    /\ UNCHANGED <<containers, allocations, used, granted>>

\* Its container runs from the start.
create_insert(t) ==
    \E made \in creating[t] :
        /\ containers' = Insert(containers, made[1], [state |-> "Running", gpu_ids |-> made[2]])
        /\ used' = used \cup {made[1]}
        /\ creating' = [creating EXCEPT ![t] = {}]
        /\ UNCHANGED <<next_id, allocations, granted>>

\* The calls fail where there is no such container, and start where it has ended.
start(c) == /\ ~ is_terminal(containers[c].state)
            /\ containers' = [containers EXCEPT ![c].state = "Running"]
            /\ UNCHANGED <<next_id, creating, allocations, used, granted>>

stop(c) == /\ containers' = [containers EXCEPT ![c].state = "Stopped"]
           /\ UNCHANGED <<next_id, creating, allocations, used, granted>>

remove(c) == /\ containers' = Drop(containers, {c})
             /\ UNCHANGED <<next_id, creating, allocations, used, granted>>

-----------------------------------------------------------------------------
is_available(g) == g \notin DOMAIN allocations

\* Variant: what is available is taken, and an error tells of the rest.
allocate_in_part(c, gpus) ==
    /\ allocations' = [g \in DOMAIN allocations \cup gpus |-> IF is_available(g) THEN c ELSE allocations[g]]
    /\ granted' = IF \A g \in gpus : is_available(g) THEN [granted EXCEPT ![c] = @ \cup gpus] ELSE granted

\* All of them or none.
allocate(c, gpus) ==
    /\ \A g \in gpus : is_available(g)
    /\ allocations' = [g \in DOMAIN allocations \cup gpus |-> IF g \in gpus THEN c ELSE allocations[g]]
    /\ granted' = [granted EXCEPT ![c] = @ \cup gpus]

release(c) == /\ allocations' = Drop(allocations, {g \in DOMAIN allocations : allocations[g] = c})
              /\ granted' = [granted EXCEPT ![c] = {}]

\* An embedder asks for the GPUs of a container there is, and gives them back when it
\* likes, the container's end included.
allocator_call ==
    /\ \/ \E c \in DOMAIN containers : \E gpus \in SUBSET Gpus : allocate(c, gpus)
       \/ \E c \in used : release(c)
    /\ UNCHANGED <<containers, next_id, creating, used>>

FakeNext == \/ \E t \in Threads : create_insert(t) \/ \E gpu_ids \in SUBSET Gpus : create(t, gpu_ids)
            \/ \E c \in DOMAIN containers : start(c) \/ stop(c) \/ remove(c)
            \/ allocator_call

FakeSpec == FakeInit /\ [][FakeNext]_fake_vars

-----------------------------------------------------------------------------
\* A container has all the GPUs it was granted and no other, however many requests were
\* refused in between.
AllocatedWhole == \A c \in Ids : {g \in DOMAIN allocations : allocations[g] = c} = granted[c]

Contract == INSTANCE ContainerContract WITH
    containers <- [c \in DOMAIN containers |->
                      [gpus |-> containers[c].gpu_ids, up |-> containers[c].state = "Running"]]

\* What the tests run against keeps the contract of a container runtime: with two threads
\* creating at once, no id names two containers, before or after a removal.
KeepsContract == Contract!Spec
=============================================================================
