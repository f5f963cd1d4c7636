--------------------------- MODULE NodeWorkloads ---------------------------
(***************************************************************************)
(* The node agent's workload handlers: StartWorkload and StopWorkload      *)
(* messages from the gateway, the node's GPU ledger, and the containers    *)
(* the runtime keeps.  crates/clawnode/src/{handlers,state}.rs; the spec   *)
(* and its validation are crates/claw-proto/src/workload.rs.               *)
(*                                                                         *)
(* A handler holds `&mut NodeState` from its first line to its last, so    *)
(* each one is a single step.  The runtime is Docker: each of its calls    *)
(* may fail, and a container may exit by itself between two handlers.      *)
(***************************************************************************)
EXTENDS Naturals, FiniteSets, Sequences

CONSTANTS WorkloadIds,    \* workload UUIDs the gateway uses
          TotalGpus,      \* NodeState::total_gpus
          MAX_GPU_COUNT,  \* validation limit on the requested GPU count
          GpuCounts,      \* values of WorkloadSpec::gpu_count the gateway sends
          GpuRequirements,\* values of scheduling.gpu_requirement: {} or {count}
          MaxContainers   \* bound: containers ever created

ASSUME NodeAssumption == /\ TotalGpus \in Nat
                         /\ MAX_GPU_COUNT \in Nat
                         /\ GpuCounts \subseteq Nat
                         /\ GpuRequirements \subseteq SUBSET Nat
                         /\ MaxContainers \in Nat

VARIABLES tracked,         \* keys of NodeState::workloads
          gpu_ids,         \* WorkloadInfo::gpu_ids of each tracked workload
          container_id,    \* WorkloadInfo::container_id; 0 when there is none
          spec_of,         \* the WorkloadSpec each tracked workload was started with
          allocated_gpus,  \* NodeState::allocated_gpus
          containers,      \* the runtime's containers, by id
          abandoned,       \* containers whose stop and remove both failed
          reported         \* last WorkloadUpdate state sent for each workload

vars == <<tracked, gpu_ids, container_id, spec_of, allocated_gpus,
          containers, abandoned, reported>>

Gpus == 0 .. TotalGpus - 1

(***************************************************************************)
(* A workload spec, as far as the handlers tell specs apart: the simple    *)
(* GPU count, the advanced requirement (an Option: a set of at most one    *)
(* count) and whether image, environment keys, memory, CPU and parallel    *)
(* settings are acceptable.                                                *)
(***************************************************************************)
WorkloadSpec == [gpu_count       : GpuCounts,
                 gpu_requirement : GpuRequirements,
                 well_formed     : BOOLEAN]

NoSpec == [gpu_count |-> 0, gpu_requirement |-> {}, well_formed |-> FALSE]

effective_gpu_count(spec) ==
    IF spec.gpu_requirement = {} THEN spec.gpu_count
    ELSE CHOOSE n \in spec.gpu_requirement : TRUE

validate(spec) == /\ spec.well_formed
                  /\ effective_gpu_count(spec) <= MAX_GPU_COUNT

WorkloadState == {"Pending", "Starting", "Running", "Stopping",
                  "Stopped", "Completed", "Failed"}

-----------------------------------------------------------------------------
(* NodeState *)

free_gpus == Gpus \ allocated_gpus

available_gpu_count ==
    LET used == Cardinality(allocated_gpus)
    IN  IF used > TotalGpus THEN 0 ELSE TotalGpus - used

\* allocate_gpus: the `count` lowest free ids, in one pass over 0..total_gpus.
lowest_free_unchecked(count) == {g \in Gpus : g < count}

lowest_free_one_more(count) ==
    {g \in free_gpus : Cardinality({h \in free_gpus : h < g}) <= count}

lowest_free_one_based(count) ==
    LET free == (1 .. TotalGpus) \ allocated_gpus
    IN  {g \in free : Cardinality({h \in free : h < g}) < count}

lowest_free(count) ==
    {g \in free_gpus : Cardinality({h \in free_gpus : h < g}) < count}

release_nothing(taken, ids) == taken

release_gpus(taken, ids) == taken \ ids

ContainerState == {"created", "running", "stopped", "removed"}

Container == [gpu_ids : SUBSET Gpus,
              state   : ContainerState]

with_state(cs, c, state) == [cs EXCEPT ![c].state = state]

Init == /\ tracked = {}
        /\ gpu_ids = [w \in WorkloadIds |-> {}]
        /\ container_id = [w \in WorkloadIds |-> 0]
        /\ spec_of = [w \in WorkloadIds |-> NoSpec]
        /\ allocated_gpus = {}
        /\ containers = <<>>
        /\ abandoned = {}
        /\ reported = [w \in WorkloadIds |-> "Pending"]

-----------------------------------------------------------------------------
(* handle_start_workload: its four early returns, then success. *)

workload_update(w, state) == reported' = [reported EXCEPT ![w] = state]

node_unchanged == UNCHANGED <<tracked, gpu_ids, container_id, spec_of, allocated_gpus>>

StartInvalid(w, spec) ==
    /\ ~validate(spec)
    /\ workload_update(w, "Failed")
    /\ node_unchanged
    /\ UNCHANGED <<containers, abandoned>>

\* Err(WorkloadExists): nothing changes.
StartExisting(w, spec) ==
    /\ validate(spec)
    /\ w \in tracked
    /\ node_unchanged
    /\ UNCHANGED <<containers, abandoned, reported>>

StartNoGpus(w, spec) ==
    /\ validate(spec)
    /\ w \notin tracked
    /\ spec.gpu_count > available_gpu_count
    /\ workload_update(w, "Failed")
    /\ node_unchanged
    /\ UNCHANGED <<containers, abandoned>>

\* Everything the successful and the failing create have in common.
StartAdmitted(w, spec) ==
    /\ validate(spec)
    /\ w \notin tracked
    /\ spec.gpu_count <= available_gpu_count
    /\ Len(containers) < MaxContainers

(***************************************************************************)
(* runtime.create is `docker create` followed by `docker start`: a failing *)
(* start leaves a created container behind.  The GPUs taken by             *)
(* allocate_gpus are released again.                                       *)
(***************************************************************************)
StartCreateFailed(w, spec, left_behind) ==
    LET ids == lowest_free(spec.gpu_count)
    IN  /\ StartAdmitted(w, spec)
        /\ allocated_gpus' = release_gpus(allocated_gpus \cup ids, ids)
        /\ containers' = IF left_behind
                         THEN Append(containers, [gpu_ids |-> ids, state |-> "created"])
                         ELSE containers
        /\ workload_update(w, "Failed")
        /\ UNCHANGED <<tracked, gpu_ids, container_id, spec_of, abandoned>>

StartSucceeds(w, spec) ==
    LET ids == lowest_free(spec.gpu_count)
    IN  /\ StartAdmitted(w, spec)
        /\ containers' = Append(containers, [gpu_ids |-> ids, state |-> "running"])
        /\ tracked' = tracked \cup {w}
        /\ gpu_ids' = [gpu_ids EXCEPT ![w] = ids]
        /\ container_id' = [container_id EXCEPT ![w] = Len(containers) + 1]
        /\ spec_of' = [spec_of EXCEPT ![w] = spec]
        /\ allocated_gpus' = allocated_gpus \cup ids
        /\ workload_update(w, "Running")
        /\ UNCHANGED abandoned

handle_start_workload(w, spec) ==
    \/ StartInvalid(w, spec)
    \/ StartExisting(w, spec)
    \/ StartNoGpus(w, spec)
    \/ \E left_behind \in BOOLEAN : StartCreateFailed(w, spec, left_behind)
    \/ StartSucceeds(w, spec)

-----------------------------------------------------------------------------
(* handle_stop_workload: stop and remove errors are logged and ignored.    *)

\* Err(WorkloadNotFound): nothing changes.
StopMissing(w) ==
    /\ w \notin tracked
    /\ node_unchanged
    /\ UNCHANGED <<containers, abandoned, reported>>

\* The container after `docker stop` and then `docker rm --force`.
after_cleanup_stop_first(state, stop_ok, remove_ok) ==
    IF ~stop_ok THEN state ELSE IF remove_ok THEN "removed" ELSE "stopped"

after_cleanup(state, stop_ok, remove_ok) ==
    IF remove_ok THEN "removed"
    ELSE IF stop_ok /\ state = "running" THEN "stopped"
    ELSE state

StopTracked(w, stop_ok, remove_ok) ==
    LET c == container_id[w]
    IN  /\ w \in tracked
        /\ containers' = with_state(containers, c,
                             after_cleanup(containers[c].state, stop_ok, remove_ok))
        /\ abandoned' = IF stop_ok \/ remove_ok THEN abandoned
                        ELSE abandoned \cup {c}
        /\ tracked' = tracked \ {w}
        /\ allocated_gpus' = allocated_gpus \ gpu_ids[w]
        /\ gpu_ids' = [gpu_ids EXCEPT ![w] = {}]
        /\ container_id' = [container_id EXCEPT ![w] = 0]
        /\ spec_of' = [spec_of EXCEPT ![w] = NoSpec]
        /\ workload_update(w, "Stopped")

handle_stop_workload(w) ==
    \/ StopMissing(w)
    \/ \E stop_ok, remove_ok \in BOOLEAN : StopTracked(w, stop_ok, remove_ok)

-----------------------------------------------------------------------------
\* A container's main process ends by itself; no handler hears of it.
ContainerExits(c) ==
    /\ containers[c].state = "running"
    /\ containers' = with_state(containers, c, "stopped")
    /\ node_unchanged
    /\ UNCHANGED <<abandoned, reported>>

Next == \/ \E w \in WorkloadIds, spec \in WorkloadSpec : handle_start_workload(w, spec)
        \/ \E w \in WorkloadIds : handle_stop_workload(w)
        \/ \E c \in DOMAIN containers : ContainerExits(c)

Spec == Init /\ [][Next]_vars

-----------------------------------------------------------------------------
TypeOK == /\ tracked \subseteq WorkloadIds
          /\ gpu_ids \in [WorkloadIds -> SUBSET Gpus]
          /\ container_id \in [WorkloadIds -> 0 .. MaxContainers]
          /\ spec_of \in [WorkloadIds -> WorkloadSpec \cup {NoSpec}]
          /\ allocated_gpus \subseteq Gpus
          /\ containers \in Seq(Container)
          /\ abandoned \subseteq 1 .. MaxContainers
          /\ reported \in [WorkloadIds -> WorkloadState]

(***************************************************************************)
(* The GPU ledger is exact: a GPU is marked allocated if and only if some  *)
(* tracked workload holds it.  Every early return of handle_start_workload *)
(* and every failure in handle_stop_workload gives back what it took.      *)
(***************************************************************************)
GpuLedgerExact == allocated_gpus = UNION {gpu_ids[w] : w \in tracked}

(***************************************************************************)
(* No two tracked workloads hold the same GPU, through any sequence of     *)
(* starts, failed starts and stops (allocate_gpus, add_workload,           *)
(* remove_workload).                                                       *)
(***************************************************************************)
GpuExclusive == \A v, w \in tracked : v # w => gpu_ids[v] \cap gpu_ids[w] = {}

(***************************************************************************)
(* Two running containers share a GPU only if one of them was given up by  *)
(* handle_stop_workload after both its stop and its remove had failed:     *)
(* that is the one way a GPU is handed out while a container still has it. *)
(***************************************************************************)
SharedGpuOnlyWithAbandoned ==
    \A c, d \in DOMAIN containers :
        /\ c # d
        /\ containers[c].state = "running"
        /\ containers[d].state = "running"
        /\ containers[c].gpu_ids \cap containers[d].gpu_ids # {}
        => {c, d} \cap abandoned # {}

(***************************************************************************)
(* A workload admitted through the simple field holds exactly the number   *)
(* of GPUs it asked for: first-fit allocation never comes up short once    *)
(* the count check has passed.                                             *)
(***************************************************************************)
GrantedCountExact ==
    \A w \in tracked : Cardinality(gpu_ids[w]) = spec_of[w].gpu_count

\* Whether get_workload_status answers Running; otherwise the workload is unknown.
get_workload_status(w) == w \in tracked

(***************************************************************************)
(* The last update that the gateway was sent of a workload agrees with     *)
(* what get_workload_status answers: Running only for one that is there,   *)
(* Stopped or nothing yet only for one that is not.  Failed says neither:  *)
(* a second start with an invalid spec fails beside the running workload.  *)
(***************************************************************************)
UpdatesTrue == \A w \in WorkloadIds :
                  /\ reported[w] = "Running" => get_workload_status(w)
                  /\ reported[w] \in {"Pending", "Stopped"} => ~ get_workload_status(w)

(***************************************************************************)
(* The ledger marks exactly the GPUs that tracked workloads hold, each of  *)
(* them holds as many as it asked for, and the updates sent agree with     *)
(* what is tracked, after every early return and failure of                *)
(* handle_start_workload and handle_stop_workload.                         *)
(***************************************************************************)
LedgerFitsWorkloads == GpuLedgerExact /\ GrantedCountExact /\ UpdatesTrue
=============================================================================
