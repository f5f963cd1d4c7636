---------------------------- MODULE Deployments ----------------------------
(***************************************************************************)
(* The deploy.* commands of a node, crates/clawnode/src/deploy_cmd.rs,     *)
(* over the DeployStore of crates/claw-deploy and its JSON file,           *)
(* crates/claw-persist.  The node runs one command at a time, one call of  *)
(* the container runtime after the other; it may crash between any two of  *)
(* them and while it writes the file.                                      *)
(***************************************************************************)
EXTENDS Naturals, FiniteSets, Sequences, Functions

CONSTANTS Names,          \* deployment names
          Images,
          MaxReplicas,
          MaxRevision,    \* bound on the revisions of a deployment
          MaxIds,         \* bound on the containers ever started
          Faults,         \* what may go wrong, each once: see `fault`
          MaxFaults       \* bound on how many of them do

ASSUME ReplicasAssumption == MaxReplicas \in Nat

VARIABLES containers,  \* what the runtime holds: id -> deployment, index, image
          mem,         \* DeployStore::deploys, a function on the known names
          disk,        \* what a load of deploys.json returns
          op,          \* the command in progress
          next_id,
          faults       \* history: what has gone wrong so far

deploy_vars == <<containers, mem, disk, op, next_id, faults>>

Idle == [kind |-> "none"]

DeployRecord == [image : Images, previous_image : {{}} \cup {{i} : i \in Images},
                 replicas : 0 .. MaxReplicas, container_ids : SUBSET (1 .. MaxIds),
                 state : {"active", "paused"}, revision : 1 .. MaxRevision,
                 history : Seq([image : Images, replicas : 0 .. MaxReplicas])]

Kinds == {"none", "create", "update", "rollback", "promote", "pause", "delete"}

DeployTypeOK ==
    /\ DOMAIN mem \subseteq Names
    /\ \A n \in DOMAIN mem : mem[n] \in DeployRecord
    /\ DOMAIN containers \subseteq 1 .. MaxIds
    /\ \A c \in DOMAIN containers :
          containers[c] \in [name : Names, index : 0 .. MaxReplicas - 1, image : Images]
    /\ op.kind \in Kinds
    /\ next_id \in 1 .. MaxIds + 1 /\ faults \subseteq Faults

Put(f, k, v) == [x \in DOMAIN f \cup {k} |-> IF x = k THEN v ELSE f[x]]
Without(f, ks) == [x \in DOMAIN f \ ks |-> f[x]]

\* "start", "remove": the runtime fails a command and changes nothing; "created":
\* it fails to start a container it has created; "save": the file cannot be
\* written; "crash": the node dies and is started again.
fault(f) == /\ f \in Faults \ faults /\ Cardinality(faults) < MaxFaults
            /\ faults' = faults \cup {f}

-----------------------------------------------------------------------------
\* A command reads the store and starts; an image that cannot be pulled, or a
\* name that is (not) there, ends it here with an error.
begin(kind, n, image, replicas, phase, old) ==
    /\ next_id + replicas <= MaxIds + 1
    /\ op' = [kind |-> kind, name |-> n, image |-> image, replicas |-> replicas,
              phase |-> phase, old |-> old, started |-> <<>>]

known(n) == op = Idle /\ n \in DOMAIN mem

unchanged_store == UNCHANGED <<containers, mem, disk, next_id, faults>>

create(n, image, replicas) ==
    /\ op = Idle /\ n \notin DOMAIN mem
    /\ begin("create", n, image, replicas, "start", {})
    /\ unchanged_store

update(n, image, replicas) ==
    /\ known(n) /\ mem[n].state # "paused"
    /\ mem[n].revision < MaxRevision
    /\ begin("update", n, image, replicas, "start", mem[n].container_ids)
    /\ unchanged_store

rollback(n) ==
    /\ known(n) /\ mem[n].previous_image # {}
    /\ mem[n].revision < MaxRevision
    /\ \E image \in mem[n].previous_image :
          begin("rollback", n, image, mem[n].replicas, "start", mem[n].container_ids)
    /\ unchanged_store

\* promote, pause: only the record changes.  delete removes the containers first.
mark(kind, n) == /\ known(n)
                 /\ begin(kind, n, mem[n].image, 0, "save", {})
                 /\ unchanged_store

delete(n) == /\ known(n)
             /\ begin("delete", n, mem[n].image, 0, "stop", mem[n].container_ids)
             /\ unchanged_store

-----------------------------------------------------------------------------
\* start_replica for the next index; the runtime refuses a name in use.
name_in_use(n, index) ==
    \E c \in DOMAIN containers : containers[c].name = n /\ containers[c].index = index

run_container(index) ==
    /\ containers' = Put(containers, next_id,
                         [name |-> op.name, index |-> index, image |-> op.image])
    /\ next_id' = next_id + 1

start_replica ==
    LET index == Len(op.started) IN
    /\ op # Idle /\ op.phase = "start" /\ index < op.replicas
    /\ ~ name_in_use(op.name, index)
    /\ run_container(index)
    /\ op' = [op EXCEPT !.started = Append(@, next_id)]
    /\ UNCHANGED <<mem, disk, faults>>

\* A failed start: what was started is cleaned up, the old replicas are kept.
after_failure_no_cleanup == Idle

after_failure_stopping_old == [op EXCEPT !.phase = "undo", !.old = @ \cup Range(op.started)]

after_failure == [op EXCEPT !.phase = "undo", !.old = Range(op.started)]

\* The name is in use, or the runtime fails; `run` creates before it starts, so
\* a failure may leave a container whose id the node never learns.
start_replica_fails ==
    LET index == Len(op.started) IN
    /\ op # Idle /\ op.phase = "start" /\ index < op.replicas
    /\ \/ name_in_use(op.name, index) /\ UNCHANGED <<containers, next_id, faults>>
       \/ fault("start") /\ UNCHANGED <<containers, next_id>>
       \/ ~ name_in_use(op.name, index) /\ fault("created") /\ run_container(index)
    /\ op' = after_failure
    /\ UNCHANGED <<mem, disk>>

all_started == /\ op # Idle /\ op.phase = "start" /\ Len(op.started) = op.replicas
               /\ op' = [op EXCEPT !.phase = "stop"]
               /\ unchanged_store

\* remove_container ignores errors, so the loop goes on either way.
remove_container ==
    /\ op # Idle /\ op.phase \in {"undo", "stop"}
    /\ \E c \in op.old :
          /\ op' = [op EXCEPT !.old = @ \ {c}]
          /\ \/ containers' = Without(containers, {c}) /\ faults' = faults
             \/ fault("remove") /\ containers' = containers
    /\ UNCHANGED <<mem, disk, next_id>>

all_removed == /\ op # Idle /\ op.phase \in {"undo", "stop"} /\ op.old = {}
               /\ op' = IF op.phase = "undo" THEN Idle ELSE [op EXCEPT !.phase = "save"]
               /\ unchanged_store

-----------------------------------------------------------------------------
\* The record after an update or a rollback.
revised_without_history(r) ==
    [r EXCEPT !.previous_image = {r.image}, !.image = op.image, !.replicas = op.replicas,
              !.container_ids = Range(op.started), !.revision = @ + 1, !.state = "active"]

revised(r) ==
    [r EXCEPT !.previous_image = {r.image}, !.image = op.image, !.replicas = op.replicas,
              !.container_ids = Range(op.started), !.revision = @ + 1, !.state = "active",
              !.history = Append(@, [image |-> op.image, replicas |-> op.replicas])]

created_at_revision_zero ==
    [image |-> op.image, previous_image |-> {}, replicas |-> op.replicas,
     container_ids |-> Range(op.started), state |-> "active", revision |-> 0,
     history |-> <<[image |-> op.image, replicas |-> op.replicas]>>]

created == [image |-> op.image, previous_image |-> {}, replicas |-> op.replicas,
            container_ids |-> Range(op.started), state |-> "active", revision |-> 1,
            history |-> <<[image |-> op.image, replicas |-> op.replicas]>>]

after_command ==
    CASE op.kind = "create"  -> Put(mem, op.name, created)
      [] op.kind \in {"update", "rollback"} -> Put(mem, op.name, revised(mem[op.name]))
      [] op.kind = "promote" -> [mem EXCEPT ![op.name].previous_image = {},
                                            ![op.name].state = "active"]
      [] op.kind = "pause"   -> [mem EXCEPT ![op.name].state = "paused"]
      [] op.kind = "delete"  -> Without(mem, {op.name})

\* snapshot, which every store operation ends with.
snapshot_unless_paused == IF op.kind = "pause" THEN disk ELSE after_command

snapshot == after_command

\* A save that fails is only logged, and may have truncated the file.
save == /\ op # Idle /\ op.phase = "save"
        /\ mem' = after_command
        /\ \/ disk' = snapshot /\ faults' = faults
           \/ fault("save") /\ disk' \in {disk, <<>>}
        /\ op' = Idle
        /\ UNCHANGED <<containers, next_id>>

\* A crash and a restart, which loads the file.  The file is not replaced
\* atomically: a crash in the middle of a save leaves what cannot be parsed,
\* and load then starts fresh.
crash ==
    /\ fault("crash")
    /\ \/ disk' = disk
       \/ op # Idle /\ op.phase = "save" /\ disk' \in {<<>>, snapshot}
    /\ mem' = disk'
    /\ op' = Idle
    /\ UNCHANGED <<containers, next_id>>

DeployInit == /\ containers = <<>> /\ mem = <<>> /\ disk = <<>> /\ op = Idle
              /\ next_id = 1 /\ faults = {}

DeployNext == \/ \E n \in Names, i \in Images, r \in 0 .. MaxReplicas :
                    create(n, i, r) \/ update(n, i, r)
              \/ \E n \in Names : \/ rollback(n) \/ delete(n)
                                  \/ mark("promote", n) \/ mark("pause", n)
              \/ start_replica \/ start_replica_fails \/ all_started
              \/ remove_container \/ all_removed \/ save
              \/ crash

DeploySpec == DeployInit /\ [][DeployNext]_deploy_vars

-----------------------------------------------------------------------------
Listed == UNION {mem[n].container_ids : n \in DOMAIN mem}

\* A listed container is only ever missing after a fault, except while the
\* command that replaces or deletes it is stopping the old replicas: whatever
\* replica fails to start, "keep old ones running" (deploy_cmd.rs:334).
OldReplicasKeepRunning ==
    faults \cap {"save", "crash"} = {} /\ (op = Idle \/ op.phase \in {"start", "undo"})
        => Listed \subseteq DOMAIN containers

\* While the worst that happens is a replica that cannot be started, the
\* containers that run between commands are exactly what the records describe:
\* one for each index below replicas, all of the recorded image.  Creates,
\* updates and rollbacks that fail halfway leave nothing behind.
RecordsDescribeContainers ==
    op = Idle /\ faults \subseteq {"start"} =>
        /\ DOMAIN containers = Listed
        /\ \A n \in DOMAIN mem :
              {containers[c] : c \in mem[n].container_ids} =
                  {[name |-> n, index |-> i, image |-> mem[n].image] :
                      i \in 0 .. (mem[n].replicas - 1)}

newest(history) == history[Len(history)]

\* "Revision number (increments on each update)." (claw-deploy/src/lib.rs:147):
\* through updates, rollbacks, crashes and restarts the revision counts the
\* history, whose last entry is what is deployed now.
RevisionCountsHistory ==
    \A n \in DOMAIN mem :
        /\ mem[n].revision = Len(mem[n].history)
        /\ newest(mem[n].history) = [image |-> mem[n].image, replicas |-> mem[n].replicas]

\* Between commands the file holds what memory holds, so that a crash then
\* loses nothing: "snapshots to a JSON file on every write"
\* (claw-persist/src/lib.rs:4), unless the write itself failed.
DiskIsMemory == op = Idle /\ "save" \notin faults => disk = mem

\* The records are true: of the containers that run, of their own history, and of what
\* the file holds.
RecordsTrue == RecordsDescribeContainers /\ RevisionCountsHistory /\ DiskIsMemory
=============================================================================
