--------------------------- MODULE RecordCommands ---------------------------
(***************************************************************************)
(* The commands of a node over the stores of crates/claw-scheduler,        *)
(* claw-config, claw-autoscaler, claw-storage, claw-secrets and claw-auth, *)
(* family by family.                                                       *)
(*                                                                         *)
(* The job.* and cron.* commands, crates/clawnode/src/job_cmd.rs, over     *)
(* JobStore and CronStore of crates/claw-scheduler.  Nothing in the node   *)
(* starts a job's containers or fires a cron's schedule: a job stays as it *)
(* was created, and only cron.trigger runs a cron.                         *)
(***************************************************************************)
EXTENDS JsonStore, TLC

CONSTANTS JobNames, CronNames, Images, Counts

VARIABLE manual_runs  \* history: the jobs a cron.trigger has put on disk

batch_vars == <<store_vars, manual_runs>>

Schedules == {"five fields", "other"}

\* A job is named by its creator, or `{cron}-manual-{timestamp}`.
given(n) == [base |-> n, at |-> {}]
manual(n, t) == [base |-> n, at |-> {t}]

JobEntry == [image : Images, completions : Counts, completed : Nat, failed : Nat,
             parallelism : Counts, container_ids : SUBSET Nat,
             state : {"pending", "running", "completed", "failed"},
             created_at : 0 .. MaxTime, finished_at : SUBSET (0 .. MaxTime)]

CronEntry == [image : Images, suspended : BOOLEAN,
              last_run : {{}} \cup {{t} : t \in 0 .. MaxTime}, created_at : 0 .. MaxTime]

BatchTypeOK == /\ DOMAIN mem = {"jobs", "crons"} /\ DOMAIN disk = {"jobs", "crons"}
               /\ \A s \in {mem, disk} : /\ \A j \in DOMAIN s.jobs : s.jobs[j] \in JobEntry
                                         /\ \A c \in DOMAIN s.crons : s.crons[c] \in CronEntry

BatchInit == new({"jobs", "crons"}) /\ manual_runs = {}

-----------------------------------------------------------------------------
new_job(image, completions, parallelism) ==
    [image |-> image, completions |-> completions, completed |-> 0, failed |-> 0,
     parallelism |-> parallelism, container_ids |-> {}, state |-> "running",
     created_at |-> clock, finished_at |-> {}]

JobStore_create(p, j, entry) == create(p, "jobs", j, entry, "job.create")

JobStore_delete(p, j) == delete(p, "jobs", j, "job.delete")

job_create(p, n, image, completions, parallelism) ==
    JobStore_create(p, given(n), new_job(image, completions, parallelism))

job_status(p, j) ==
    fetch(p, "jobs", j, "job.status", [state     |-> view(p).jobs[j].state,
                                       completed |-> view(p).jobs[j].completed])

\* With no containers the answer is "no containers spawned yet".
job_logs(p, j) ==
    fetch(p, "jobs", j, "job.logs", [containers |-> Cardinality(view(p).jobs[j].container_ids)])

\* The entry goes first; then each of its containers is stopped, whatever comes of it.
job_delete(p, j) == JobStore_delete(p, j)

-----------------------------------------------------------------------------
CronStore_create(p, n, entry) == create(p, "crons", n, entry, "cron.create")

CronStore_update(p, n, entry, c) == modify(p, "crons", n, entry, c)

\* validate_cron_expression: five fields, whatever they say.
valid_schedule(s) == s = "five fields"

cron_create(p, n, schedule, image) ==
    IF ~ valid_schedule(schedule) THEN respond(Err("cron.create"))
    ELSE CronStore_create(p, n, [image |-> image, suspended |-> FALSE, last_run |-> {},
                                 created_at |-> clock])

cron_list(p) == respond(Ok("cron.list", view(p).crons))

last_run_first(jobs, crons) == write("crons", crons) \o write("jobs", jobs)

\* The job is stored before the cron's last_run is.
job_then_last_run(jobs, crons) == write("jobs", jobs) \o write("crons", crons)

\* A cron is run by hand, suspended or not.  Two runs within a second would have
\* the same job name: the second is refused.
cron_trigger(p, n) ==
    LET crons == view(p).crons
        jobs == view(p).jobs
        j == manual(n, clock)
    IN  IF n \notin DOMAIN crons \/ j \in DOMAIN jobs THEN respond(Err("cron.trigger"))
        ELSE commit(p, job_then_last_run(Put(jobs, j, new_job(crons[n].image, 1, 1)),
                                         [crons EXCEPT ![n].last_run = {clock}]),
                    Ok("cron.trigger", j))

cron_suspend(p, n) ==
    CronStore_update(p, n, [view(p).crons[n] EXCEPT !.suspended = TRUE], "cron.suspend")

cron_resume(p, n) ==
    CronStore_update(p, n, [view(p).crons[n] EXCEPT !.suspended = FALSE], "cron.resume")

-----------------------------------------------------------------------------
known_jobs == DOMAIN mem.jobs \cup DOMAIN disk.jobs \cup {given(n) : n \in JobNames}

handle_job_command(p) ==
    \/ \E n \in JobNames, image \in Images, c \in Counts : job_create(p, n, image, c, 1)
    \/ \E j \in known_jobs : job_status(p, j) \/ job_logs(p, j) \/ job_delete(p, j)
    \/ \E n \in CronNames, s \in Schedules, image \in Images : cron_create(p, n, s, image)
    \/ cron_list(p)
    \/ \E n \in CronNames : cron_trigger(p, n) \/ cron_suspend(p, n) \/ cron_resume(p, n)

BatchNext == /\ \/ \E p \in Procs : handle_job_command(p)
                \/ restart
                \/ tick
             /\ manual_runs' = manual_runs \cup {j \in DOMAIN disk'.jobs : j.at # {}}

BatchSpec == BatchInit /\ [][BatchNext]_batch_vars

-----------------------------------------------------------------------------
\* The last_run a cron has on disk is that of a job that reached the disk before
\* it, even when the node dies between the two files (cron.trigger); only a file
\* that could not be written breaks this.
CronRunsAreJobs ==
    "crons" \in DOMAIN disk /\ "save" \notin faults =>
    \A n \in DOMAIN disk.crons : \A t \in disk.crons[n].last_run :
        manual(n, t) \in manual_runs

-----------------------------------------------------------------------------
(***************************************************************************)
(* The namespace.*, node.label, node.taint and policy.* commands of a node, *)
(* crates/clawnode/src/namespace_cmd.rs and policy_cmd.rs, over            *)
(* NamespaceStore and PolicyStore of crates/claw-scheduler.  Labels and    *)
(* taints live in memory only; nothing in the node enforces a quota, a     *)
(* taint or a policy: policy.validate answers whether a workload complies. *)
(***************************************************************************)
CONSTANTS Namespaces, Labels, TaintEffects,
          PolicyNames,
          Policies,   \* the policy.create parameters
          Specs,      \* the workload specifications offered to policy.validate
          MaxTaints

Resources == {"cpu", "memory", "gpus", "storage"}
\* A quota that is not set is not in the domain.
is_quota(q) == DOMAIN q \subseteq Resources

PolicyTypes == {"resource-limit", "image-whitelist", "label-required", "custom"}
\* A rule is a JSON object: the keys it lacks are empty here.
Rule == [maxGpus : SUBSET Nat, maxMemoryMb : SUBSET Nat, pattern : SUBSET Seq(STRING),
         key : SUBSET Labels]

TenancyStores == {"namespaces", "policies", "taints", "labels"}

TenancyTypeOK == /\ DOMAIN mem = TenancyStores /\ DOMAIN disk = TenancyStores
                 /\ \A n \in DOMAIN mem.namespaces : is_quota(mem.namespaces[n].quotas)
                 /\ \A n \in DOMAIN mem.policies : /\ mem.policies[n].type \in PolicyTypes
                                                   /\ mem.policies[n].rules \subseteq Rule

TenancyInit == new(TenancyStores)

-----------------------------------------------------------------------------
NamespaceStore_create(p, n, entry) == create(p, "namespaces", n, entry, "namespace.create")

NamespaceStore_update(p, n, entry) == modify(p, "namespaces", n, entry, "namespace.set_quota")

namespace_create(p, n, quotas) ==
    NamespaceStore_create(p, n, [quotas |-> quotas, created_at |-> clock])

\* Only the quotas that are given change.
namespace_set_quota(p, n, quotas) ==
    NamespaceStore_update(p, n, [view(p).namespaces[n] EXCEPT !.quotas = quotas @@ @])

\* The usage is a placeholder: always zero.
namespace_usage(p, n) ==
    fetch(p, "namespaces", n, "namespace.usage",
          [quotas |-> view(p).namespaces[n].quotas, usage |-> [r \in Resources |-> 0]])

namespace_list(p) == respond(Ok("namespace.list", view(p).namespaces))

node_label(p, key, value) ==
    remember(p, "labels", Put(view(p).labels, key, value), Ok("node.label", key))

\* Each call adds an entry, a repeated one too; none is ever removed.
node_taint(p, key, effect) ==
    LET taints == view(p).taints IN
    IF effect \notin {"NoSchedule", "PreferNoSchedule", "NoExecute"}
    THEN respond(Err("node.taint"))
    ELSE /\ Len(taints) < MaxTaints
         /\ remember(p, "taints", Append(taints, [key |-> key, effect |-> effect]), Ok("node.taint", key))

-----------------------------------------------------------------------------
PolicyStore_create(p, n, entry) == create(p, "policies", n, entry, "policy.create")

policy_create(p, n, policy) ==
    IF policy.type \notin PolicyTypes THEN respond(Err("policy.create"))
    ELSE PolicyStore_create(p, n, policy)

policy_list(p) == respond(Ok("policy.list", view(p).policies))

\* A limit applies when both the rule and the workload name the resource.
over_limit(rule, spec) ==
    \/ \E max \in rule.maxGpus, gpus \in spec.gpus : gpus > max
    \/ \E max \in rule.maxMemoryMb, mb \in spec.memoryMb : mb > max

patterns(policy) == UNION {rule.pattern : rule \in policy.rules}

starts_with(image, p) == Len(p) <= Len(image) /\ SubSeq(image, 1, Len(p)) = p

\* One pattern of the policy suffices; a policy without patterns allows any image.
not_whitelisted(policy, spec) ==
    /\ patterns(policy) # {}
    /\ \E image \in spec.image : ~ \E p \in patterns(policy) : starts_with(image, p)

missing_label(rule, spec) == \E key \in rule.key : key \notin spec.labels

violates(policy, spec) ==
    \/ policy.type = "resource-limit" /\ \E rule \in policy.rules : over_limit(rule, spec)
    \/ policy.type = "image-whitelist" /\ not_whitelisted(policy, spec)
    \/ policy.type = "label-required" /\ \E rule \in policy.rules : missing_label(rule, spec)

pooled_whitelists(policies, spec) ==
    LET lists == {n \in DOMAIN policies : policies[n].enabled /\ policies[n].type = "image-whitelist"}
    IN  {n \in DOMAIN policies : policies[n].enabled /\ violates(policies[n], spec)
                                 /\ (n \in lists => \A m \in lists : violates(policies[m], spec))}

list_enabled(policies) == {n \in DOMAIN policies : policies[n].enabled}

\* The enabled policies that the workload violates.
violations(policies, spec) == {n \in list_enabled(policies) : violates(policies[n], spec)}

policy_validate(p, spec) ==
    LET found == violations(view(p).policies, spec)
    IN  respond(Ok("policy.validate", [valid |-> found = {}, violations |-> found]))

-----------------------------------------------------------------------------
handle_namespace_command(p) ==
    \/ \E n \in Namespaces, q \in {<<>>, [gpus |-> 1], [cpu |-> 2]} :
          namespace_create(p, n, q) \/ namespace_set_quota(p, n, q)
    \/ \E n \in Namespaces : namespace_usage(p, n)
    \/ namespace_list(p)
    \/ \E l \in Labels : node_label(p, l, "v")
    \/ \E l \in Labels, e \in TaintEffects : node_taint(p, l, e)

handle_policy_command(p) ==
    \/ \E n \in PolicyNames, policy \in Policies : policy_create(p, n, policy)
    \/ \E spec \in Specs : policy_validate(p, spec)
    \/ policy_list(p)

TenancyNext == \/ \E p \in Procs : handle_namespace_command(p) \/ handle_policy_command(p)
               \/ restart

TenancySpec == TenancyInit /\ [][TenancyNext]_store_vars

-----------------------------------------------------------------------------
\* The step in which a process dies while it writes the daemon's file of store s: the map
\* that the daemon loads from it is empty.
torn(s) == "crash" \in faults' \ faults /\ mem'[s] = EmptyStore

\* No snapshot has failed, and none was torn by an exec process behind the daemon's back.
OwnSnapshots == "save" \notin faults /\ (Procs = {"daemon"} \/ "crash" \notin faults)

\* In every step a workload that policy.validate rejects stays rejected, whatever
\* policies are added, across restarts of the node and crashes of the daemon, unless the
\* crash tears the policy file: policies are only ever added and each is checked on its own.
RejectionsStand ==
    OwnSnapshots' /\ ~ torn("policies")
    => \A spec \in Specs : violations(mem.policies, spec) # {}
                            => violations(mem'.policies, spec) # {}

-----------------------------------------------------------------------------
(***************************************************************************)
(* The config.* and autoscale.* commands of a node,                        *)
(* crates/clawnode/src/config_cmd.rs and autoscale_cmd.rs, over ConfigStore *)
(* of crates/claw-config and AutoscaleStore of crates/claw-autoscaler.     *)
(***************************************************************************)
CONSTANTS ConfigNames, Data, AutoscaleNames, Replicas

SettingStores == {"configs", "autoscale"}

ConfigEntry == [data : Data, immutable : BOOLEAN, created_at : 0 .. MaxTime,
                updated_at : 0 .. MaxTime]
AutoscaleRecord == [min_replicas : Replicas, max_replicas : Replicas, current_replicas : Replicas,
                    state : {"active", "disabled"}, updated_at : 0 .. MaxTime]

SettingTypeOK == /\ DOMAIN mem = SettingStores /\ DOMAIN disk = SettingStores
                 /\ \A m \in {mem, disk} :
                       /\ \A n \in DOMAIN m.configs : m.configs[n] \in ConfigEntry
                       /\ \A n \in DOMAIN m.autoscale : m.autoscale[n] \in AutoscaleRecord

SettingInit == new(SettingStores)

-----------------------------------------------------------------------------
ConfigStore_create(p, n, data, immutable) ==
    create(p, "configs", n, [data |-> data, immutable |-> immutable, created_at |-> clock,
                             updated_at |-> clock], "config.create")

set_data(e, data) == [e EXCEPT !.data = data, !.updated_at = clock]

update_any(p, n, data) ==
    modify(p, "configs", n, set_data(view(p).configs[n], data), "config.update")

ConfigStore_update(p, n, data) ==
    IF n \in DOMAIN view(p).configs /\ view(p).configs[n].immutable
    THEN respond(Err("config.update"))
    ELSE modify(p, "configs", n, set_data(view(p).configs[n], data), "config.update")

ConfigStore_delete(p, n) == delete(p, "configs", n, "config.delete")

\* The prefix, here a whole name, is optional.
ConfigStore_list(p, prefix) == {n \in DOMAIN view(p).configs : prefix = {} \/ n \in prefix}

config_create(p, n, data, immutable) == ConfigStore_create(p, n, data, immutable)

config_get(p, n) == fetch(p, "configs", n, "config.get", view(p).configs[n])

config_update(p, n, data) == ConfigStore_update(p, n, data)

config_delete(p, n) == ConfigStore_delete(p, n)

config_list(p, prefix) == respond(Ok("config.list", ConfigStore_list(p, prefix)))

-----------------------------------------------------------------------------
AutoscaleStore_create(p, n, record) == create(p, "autoscale", n, record, "autoscale.create")

AutoscaleStore_update(p, n, record) ==
    modify(p, "autoscale", n, record, "autoscale.adjust")

AutoscaleStore_delete(p, n) == delete(p, "autoscale", n, "autoscale.delete")

autoscale_create(p, n, min, max) ==
    IF min > max THEN respond(Err("autoscale.create"))
    ELSE AutoscaleStore_create(p, n, [min_replicas |-> min, max_replicas |-> max,
                                      current_replicas |-> min, state |-> "active",
                                      updated_at |-> clock])

autoscale_status(p, n) == fetch(p, "autoscale", n, "autoscale.status", view(p).autoscale[n])

\* u32::clamp, which panics when its bounds are out of order.
clamp(x, lo, hi) == IF x < lo THEN lo ELSE IF x > hi THEN hi ELSE x

\* A panic ends the process; the memory it has changed was not saved.
panic(p) == /\ mem' = IF p = "daemon" THEN disk ELSE mem
            /\ reply' = NoReply /\ UNCHANGED <<disk, clock, faults>>

unwrap_or(param, old) == IF param = {} THEN old ELSE CHOOSE x \in param : TRUE

\* Each parameter is optional.  The new bounds are not compared with one another,
\* and the current replicas are only clamped when they are given.
autoscale_adjust(p, n, min, max, replicas, enabled) ==
    IF n \notin DOMAIN view(p).autoscale THEN respond(Err("autoscale.adjust"))
    ELSE LET old == view(p).autoscale[n]
             lo == unwrap_or(min, old.min_replicas)
             hi == unwrap_or(max, old.max_replicas)
             current == IF replicas = {} THEN old.current_replicas
                        ELSE clamp(unwrap_or(replicas, 0), lo, hi)
             state == IF enabled = {} THEN old.state
                      ELSE IF TRUE \in enabled THEN "active" ELSE "disabled"
         IN  IF replicas # {} /\ lo > hi THEN panic(p)
             ELSE AutoscaleStore_update(p, n, [min_replicas |-> lo, max_replicas |-> hi,
                                               current_replicas |-> current, state |-> state,
                                               updated_at |-> clock])

autoscale_delete(p, n) == AutoscaleStore_delete(p, n)

-----------------------------------------------------------------------------
handle_config_command(p) ==
    \/ \E n \in ConfigNames, d \in Data :
          \/ \E immutable \in BOOLEAN : config_create(p, n, d, immutable)
          \/ config_update(p, n, d)
    \/ \E n \in ConfigNames : config_get(p, n) \/ config_delete(p, n)
    \/ \E prefix \in {{}} \cup {{n} : n \in ConfigNames} : config_list(p, prefix)


handle_autoscale_command(p) ==
    \/ \E n \in AutoscaleNames, min, max \in Replicas : autoscale_create(p, n, min, max)
    \/ \E n \in AutoscaleNames, min, max, r \in option(Replicas), on \in option(BOOLEAN) :
          autoscale_adjust(p, n, min, max, r, on)
    \/ \E n \in AutoscaleNames : autoscale_status(p, n) \/ autoscale_delete(p, n)

SettingNext == \/ \E p \in Procs : handle_config_command(p) \/ handle_autoscale_command(p)
               \/ restart
               \/ tick

SettingSpec == SettingInit /\ [][SettingNext]_store_vars

-----------------------------------------------------------------------------
\* No step changes the data of an immutable config while the config exists: update
\* refuses, and no restart or crash brings other data back.
ImmutableStands ==
    \A n \in DOMAIN mem.configs :
        mem.configs[n].immutable /\ "save" \notin faults' /\ n \in DOMAIN mem'.configs
        => mem'.configs[n] = mem.configs[n]

\* autoscale.create refuses bounds out of order: "minReplicas cannot exceed
\* maxReplicas".
BoundsOrdered ==
    \A n \in DOMAIN mem.autoscale : mem.autoscale[n].min_replicas <= mem.autoscale[n].max_replicas

-----------------------------------------------------------------------------
(***************************************************************************)
(* The volume.* and backup.* commands of a node,                           *)
(* crates/clawnode/src/storage_cmd.rs, over VolumeStore and BackupStore of *)
(* crates/claw-storage.  A backup is a copy of the state directory, which  *)
(* holds the files of all the stores.                                      *)
(***************************************************************************)
CONSTANTS Volumes, Containers, VolumeTypes, MaxBackups

VARIABLE archives  \* what each backup's destination holds: id -> tree

storage_vars == <<store_vars, archives>>

StorageStores == {"volumes", "backups"}

VolumeRecord == [volume_type : VolumeTypes, host_path : BOOLEAN, state : {"available", "bound"},
                 bound_to : {{}} \cup {{c} : c \in Containers}, created_at : 0 .. MaxTime]
BackupEntry == [state : {"completed", "failed"}, created_at : 0 .. MaxTime]

\* A directory: the store files at its top, and the copies of state directories
\* below it.
Tree(files, below) == [files |-> files, below |-> below]
NoFiles == <<>>

StorageTypeOK == /\ DOMAIN mem = StorageStores /\ DOMAIN disk = StorageStores
                 /\ \A m \in {mem, disk} :
                       /\ \A v \in DOMAIN m.volumes : m.volumes[v] \in VolumeRecord
                       /\ \A b \in DOMAIN m.backups : m.backups[b] \in BackupEntry
                 /\ DOMAIN archives \subseteq 0 .. MaxTime

StorageInit == new(StorageStores) /\ archives = <<>>

-----------------------------------------------------------------------------
VolumeStore_create(p, v, record) == create(p, "volumes", v, record, "volume.create")

VolumeStore_update(p, v, record, c) == modify(p, "volumes", v, record, c)

VolumeStore_delete(p, v) == delete(p, "volumes", v, "volume.delete")

\* A hostpath volume needs a path, an emptydir one gets one below the state path;
\* other types keep what they are given.
volume_create(p, v, type, path) ==
    IF type = "hostpath" /\ ~ path THEN respond(Err("volume.create"))
    ELSE VolumeStore_create(p, v, [volume_type |-> type, host_path |-> path \/ type = "emptydir",
                                   state |-> "available", bound_to |-> {}, created_at |-> clock])

bound(p, v) == v \in DOMAIN view(p).volumes /\ view(p).volumes[v].state = "bound"

volume_mount(p, v, c) ==
    IF bound(p, v) THEN respond(Err("volume.mount"))
    ELSE VolumeStore_update(p, v, [view(p).volumes[v] EXCEPT !.state = "bound", !.bound_to = {c}],
                            "volume.mount")

volume_unmount(p, v) ==
    VolumeStore_update(p, v, [view(p).volumes[v] EXCEPT !.state = "available", !.bound_to = {}],
                       "volume.unmount")

\* `cp` may fail; no store changes.
volume_snapshot(p, v) ==
    \E copied \in BOOLEAN :
        respond(IF /\ v \in DOMAIN view(p).volumes /\ view(p).volumes[v].host_path
                   /\ copied
                THEN Ok("volume.snapshot", <<v, clock>>) ELSE Err("volume.snapshot"))

volume_list(p) == respond(Ok("volume.list", view(p).volumes))

delete_unchecked(p, v) == VolumeStore_delete(p, v)

volume_delete(p, v) ==
    IF bound(p, v) THEN respond(Err("volume.delete")) ELSE VolumeStore_delete(p, v)

-----------------------------------------------------------------------------
BackupStore_create(p, id, entry) == create(p, "backups", id, entry, "backup.create")

\* `cp -a {state_path} {dest}` into the directory that was just made: the copy is
\* a directory below it, named as the state path is.
copied_state == Tree(NoFiles, {disk})

\* The id is the time in seconds; the copy is made before the entry is stored.
backup_create(p) ==
    LET id == clock IN
    /\ Cardinality(DOMAIN archives) < MaxBackups \/ id \in DOMAIN archives
    /\ \E copied \in BOOLEAN :
          /\ BackupStore_create(p, id, [state |-> IF copied THEN "completed" ELSE "failed",
                                        created_at |-> clock])
          /\ archives' = IF copied THEN Put(archives, id, copied_state) ELSE archives

\* `cp -a {dest}/. {state_path}`: the files at the top of the copy replace those
\* of the state directory; nothing is loaded.
restored(tree) == [s \in DOMAIN disk |-> IF s \in DOMAIN tree.files THEN tree.files[s] ELSE disk[s]]

backup_restore(p, id) ==
    LET backups == view(p).backups IN
    /\ IF /\ id \in DOMAIN backups /\ backups[id].state = "completed"
          /\ id \in DOMAIN archives
       THEN /\ disk' = restored(archives[id])
            /\ reply' = Ok("backup.restore", id) /\ UNCHANGED <<mem, clock, faults>>
       ELSE respond(Err("backup.restore"))
    /\ UNCHANGED archives

backup_list(p) == respond(Ok("backup.list", view(p).backups))

-----------------------------------------------------------------------------
handle_storage_command(p) ==
    \/ /\ \/ \E v \in Volumes, t \in VolumeTypes, path \in BOOLEAN : volume_create(p, v, t, path)
          \/ \E v \in Volumes, c \in Containers : volume_mount(p, v, c)
          \/ \E v \in Volumes : volume_unmount(p, v) \/ volume_snapshot(p, v) \/ volume_delete(p, v)
          \/ volume_list(p) \/ backup_list(p)
       /\ UNCHANGED archives
    \/ backup_create(p)
    \/ \E id \in 0 .. MaxTime : backup_restore(p, id)

StorageNext == \/ \E p \in Procs : handle_storage_command(p)
               \/ restart /\ UNCHANGED archives
               \/ tick /\ UNCHANGED archives

StorageSpec == StorageInit /\ [][StorageNext]_storage_vars

-----------------------------------------------------------------------------
\* No step deletes a volume that is mounted or mounts it elsewhere until it is
\* unmounted, across restarts and crashes of the daemon unless the crash tears the file
\* of the volumes; and a volume is bound exactly when it is bound to a container.
MountsStand ==
    "save" \notin faults' /\ ~ torn("volumes") =>
    \A v \in DOMAIN mem.volumes :
        mem.volumes[v].state = "bound"
        => /\ v \in DOMAIN mem'.volumes
           /\ mem'.volumes[v].bound_to \in {mem.volumes[v].bound_to, {}}
           /\ mem'.volumes[v].bound_to = {} <=> mem'.volumes[v].state = "available"

\* The store files that a backup holds, wherever in the copy they are.
backed_up(tree) == IF tree.below = {} THEN tree.files ELSE CHOOSE files \in tree.below : TRUE

\* After an acknowledged backup.restore the files of the state directory are those
\* of the backup ("Copy backup back to state path").
RestoreBringsBack ==
    (reply.cmd = "backup.restore" /\ reply.ok)
    => disk.volumes = backed_up(archives[reply.value]).volumes

-----------------------------------------------------------------------------
(***************************************************************************)
(* The secret.*, auth.* and audit.query commands of a node,                *)
(* crates/clawnode/src/secrets_cmd.rs and auth_cmd.rs, over SecretStore of *)
(* crates/claw-secrets and ApiKeyStore and AuditLogStore of                *)
(* crates/claw-auth.  A secret is encrypted under a key derived from the   *)
(* host name, which a process reads when it starts.                        *)
(***************************************************************************)
CONSTANTS Secrets, Values, Hosts, KeyIds, MaxAudit

VARIABLES hostname,   \* the name of the host now
          daemon_host,\* and when the daemon was started
          may_hold,   \* history: what each secret may hold after what was asked
          revoked     \* history: the keys whose revocation was acknowledged

credential_vars == <<store_vars, hostname, daemon_host, may_hold, revoked>>

CredentialStores == {"secrets", "apikeys", "audit_log"}

SecretEntry == [sealed_by : Hosts, data : Values, created_at : 0 .. MaxTime,
                rotated_at : 0 .. MaxTime]
ApiKeyRecord == [active : BOOLEAN, secret_hash : KeyIds, created_at : 0 .. MaxTime]
AuditLogEntry == [action : {"auth.create_key", "auth.revoke_key"}, resource_id : KeyIds,
                  timestamp : 0 .. MaxTime]

CredentialTypeOK == /\ DOMAIN mem = CredentialStores /\ DOMAIN disk = CredentialStores
                    /\ \A m \in {mem, disk} :
                          /\ \A n \in DOMAIN m.secrets : m.secrets[n] \in SecretEntry
                          /\ \A k \in DOMAIN m.apikeys : m.apikeys[k] \in ApiKeyRecord
                          /\ \A i \in DOMAIN m.audit_log : m.audit_log[i] \in AuditLogEntry
                    /\ hostname \in Hosts /\ daemon_host \in Hosts
                    /\ revoked \subseteq KeyIds /\ may_hold \in [Secrets -> SUBSET Values]

CredentialInit == /\ new(CredentialStores) /\ hostname \in Hosts /\ daemon_host = hostname
                  /\ may_hold = [n \in Secrets |-> {}] /\ revoked = {}

-----------------------------------------------------------------------------
node_seed(p) == IF p = "daemon" THEN daemon_host ELSE hostname

\* AES-256-GCM with a fresh nonce: only the key that sealed the data opens it.
encrypt(seed, data) == [sealed_by |-> seed, data |-> data]
decrypt(seed, e) == IF e.sealed_by = seed THEN {e.data} ELSE {}

entry(seed, data, created) ==
    [sealed_by |-> encrypt(seed, data).sealed_by, data |-> encrypt(seed, data).data,
     created_at |-> created, rotated_at |-> clock]

SecretStore_create(p, n, e) == create(p, "secrets", n, e, "secret.create")

\* Variant: the changed map is not written.
update_without_snapshot(p, n, e) ==
    IF n \notin DOMAIN view(p).secrets THEN respond(Err("secret.rotate"))
    ELSE remember(p, "secrets", [view(p).secrets EXCEPT ![n] = e], Ok("secret.rotate", n))

SecretStore_update(p, n, e) == modify(p, "secrets", n, e, "secret.rotate")

SecretStore_delete(p, n) == delete(p, "secrets", n, "secret.delete")

\* What the secret n may hold after a command that sets it to a value of d: an
\* acknowledged one decides; one whose process died may or may not have done so.
note(n, d) ==
    may_hold' = IF reply'.cmd = "none" THEN [may_hold EXCEPT ![n] = @ \cup d]
                ELSE IF reply'.ok THEN [may_hold EXCEPT ![n] = d] ELSE may_hold

secret_create(p, n, d) == /\ SecretStore_create(p, n, entry(node_seed(p), d, clock))
                          /\ note(n, {d})

secret_get(p, n) ==
    LET m == view(p).secrets
        data == IF n \in DOMAIN m THEN decrypt(node_seed(p), m[n]) ELSE {}
    IN  respond(IF data = {} THEN Err("secret.get")
                ELSE Ok("secret.get", [name |-> n, data |-> data]))

secret_delete(p, n) == SecretStore_delete(p, n) /\ note(n, {})

secret_list(p) == respond(Ok("secret.list", DOMAIN view(p).secrets))

\* The data to seal again when none is given; an entry that does not open is an
\* error.
rotating(p, n) ==
    IF n \notin DOMAIN view(p).secrets THEN {}
    ELSE decrypt(node_seed(p), view(p).secrets[n])

\* The new entry replaces the old one whole, created_at included.
secret_rotate(p, n, data_given) ==
    LET data == IF data_given = {} THEN rotating(p, n) ELSE data_given IN
    IF data = {} THEN respond(Err("secret.rotate")) /\ UNCHANGED may_hold
    ELSE \E d \in data : /\ SecretStore_update(p, n, entry(node_seed(p), d, clock))
                         /\ note(n, {d})

-----------------------------------------------------------------------------
ApiKeyStore_create(p, k, e) == Put(view(p).apikeys, k, e)

ApiKeyStore_revoke(p, k) == [view(p).apikeys EXCEPT ![k].active = FALSE]

find_by_hash(keys, hash) == {k \in DOMAIN keys : keys[k].secret_hash = hash /\ keys[k].active}

\* The entry has a fresh UUID.
append(p, action, k) ==
    LET log == view(p).audit_log
        id == CHOOSE i \in 1 .. MaxAudit : i \notin DOMAIN mem.audit_log \cup DOMAIN disk.audit_log
    IN  Put(log, id, [action |-> action, resource_id |-> k, timestamp |-> clock])

room == Cardinality(DOMAIN mem.audit_log \cup DOMAIN disk.audit_log) < MaxAudit

audit_then_effect(keys, log) == write("audit_log", log) \o write("apikeys", keys)

effect_then_audit(keys, log) == write("apikeys", keys) \o write("audit_log", log)

\* The key id is a prefix of the random secret; one that is taken is refused.
auth_create_key(p, k) ==
    IF k \in DOMAIN view(p).apikeys THEN respond(Err("auth.create_key"))
    ELSE room /\ commit(p, effect_then_audit(
             ApiKeyStore_create(p, k, [active |-> TRUE, secret_hash |-> k, created_at |-> clock]),
             append(p, "auth.create_key", k)), Ok("auth.create_key", k))

auth_revoke_key(p, k) ==
    IF k \notin DOMAIN view(p).apikeys THEN respond(Err("auth.revoke_key")) /\ UNCHANGED revoked
    ELSE /\ room
         /\ commit(p, effect_then_audit(ApiKeyStore_revoke(p, k), append(p, "auth.revoke_key", k)),
                   Ok("auth.revoke_key", k))
         /\ revoked' = IF reply' = Ok("auth.revoke_key", k) THEN revoked \cup {k} ELSE revoked

auth_list_keys(p) == respond(Ok("auth.list_keys", view(p).apikeys))

\* The newest first; entries of the same time in any order.
audit_query(p, action, limit) ==
    LET log == view(p).audit_log
        found == {i \in DOMAIN log : log[i].action = action}
    IN  \E s \in Injection(1 .. Cardinality(found), found) :
           /\ \A i, j \in DOMAIN s : i < j => log[s[i]].timestamp >= log[s[j]].timestamp
           /\ respond(Ok("audit.query", [i \in 1 .. Min({limit, Len(s)}) |-> log[s[i]]]))

-----------------------------------------------------------------------------
handle_secret_command(p) ==
    /\ \/ \E n \in Secrets, d \in Values : secret_create(p, n, d)
       \/ \E n \in Secrets : secret_get(p, n) /\ UNCHANGED may_hold
       \/ \E n \in Secrets : secret_delete(p, n)
       \/ secret_list(p) /\ UNCHANGED may_hold
       \/ \E n \in Secrets, g \in {{}} \cup {{d} : d \in Values} : secret_rotate(p, n, g)
    /\ UNCHANGED revoked

\* A key id is not drawn again: the secrets are random.
handle_auth_command(p) ==
    /\ \/ \E k \in KeyIds : auth_create_key(p, k) /\ k \notin revoked /\ UNCHANGED revoked
       \/ \E k \in KeyIds : auth_revoke_key(p, k)
       \/ auth_list_keys(p) /\ UNCHANGED revoked
       \/ audit_query(p, "auth.revoke_key", 1) /\ UNCHANGED revoked
    /\ UNCHANGED may_hold

restart_node == /\ restart /\ daemon_host' = hostname
                /\ UNCHANGED <<hostname, may_hold, revoked>>

rename_host == /\ hostname' \in Hosts
               /\ UNCHANGED <<store_vars, daemon_host, may_hold, revoked>>

\* A daemon that dies in a command is started under the present host name.
restarted == daemon_host' = IF reply'.cmd = "none" THEN hostname ELSE daemon_host

CredentialNext == \/ \E p \in Procs : /\ handle_secret_command(p) \/ handle_auth_command(p)
                                      /\ (p = "daemon" => restarted)
                                      /\ (p # "daemon" => UNCHANGED daemon_host)
                                      /\ UNCHANGED hostname
                  \/ restart_node
                  \/ rename_host
                  \/ tick /\ UNCHANGED <<hostname, daemon_host, may_hold, revoked>>

CredentialSpec == CredentialInit /\ [][CredentialNext]_credential_vars

-----------------------------------------------------------------------------
\* secret.get answers with data the secret was last set to, never with older or
\* other data, across rotations, restarts, crashes and changes of the host name
\* (which it answers with an error).
SecretsReadBack ==
    (reply.cmd = "secret.get" /\ reply.ok /\ "save" \notin faults)
    => reply.value.data \subseteq may_hold[reply.value.name]

\* A key whose revocation was acknowledged opens nothing again, whatever files a
\* crash loses and however often the node is restarted.
RevokedStaysRevoked ==
    "save" \notin faults => \A k \in revoked : find_by_hash(mem.apikeys, k) = {}

\* The audit log on disk never claims what did not reach the disk: an entry for a
\* revocation is written only after the key is inactive (or its file is lost).
AuditFollowsEffect ==
    "save" \notin faults =>
    \A i \in DOMAIN disk.audit_log :
        LET e == disk.audit_log[i] IN
        e.action = "auth.revoke_key" => find_by_hash(disk.apikeys, e.resource_id) = {}

\* secret.get answers with data the secret was last set to or with an error, across
\* rotations, restarts, crashes and changes of the host name its key is derived from; a
\* key whose revocation was acknowledged opens nothing again (auth.revoke_key), and the
\* audit log on disk claims no revocation that did not reach the disk.
CredentialsHold ==
    "apikeys" \in DOMAIN disk => SecretsReadBack /\ RevokedStaysRevoked /\ AuditFollowsEffect
=============================================================================
