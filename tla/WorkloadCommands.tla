-------------------------- MODULE WorkloadCommands --------------------------
(***************************************************************************)
(* The workload.* and container.exec commands and node.drain of a node,    *)
(* crates/clawnode/src/commands.rs and namespace_cmd.rs, over WorkloadStore *)
(* of crates/claw-deploy, with the workload IPs of workload_net.rs and the *)
(* reconciliation of lib.rs at startup.  Containers run, exit and are      *)
(* removed by themselves, and the runtime may fail a call.  A `clawnode    *)
(* exec` process has no workload network.                                  *)
(***************************************************************************)
EXTENDS JsonStore

CONSTANTS Sdk,         \* whether the Docker SDK is connected, or the CLI is used
          ContainerNames,
          LastSuffix,  \* the last address of the workload subnet: 254
          MaxRuns      \* bound: workload.run commands that get an id

ASSUME WorkloadAssumption == LastSuffix \in Nat /\ MaxRuns \in Nat

VARIABLES containers,  \* the runtime: id -> [name, ip, status]
          net,         \* WorkloadNetManager of the daemon
          runs,        \* workload ids drawn so far
          up           \* whether the daemon is up

workload_vars == <<store_vars, containers, net, runs, up>>

HostParts == 2 .. LastSuffix
Workloads == 1 .. MaxRuns

\* A container's id is here that of the workload it was run for.  A run that is not
\* detached prints the container's output, which is then taken for its id.
NoContainer == 0

Container == [name : option(ContainerNames), ip : option(HostParts),
              status : {"running", "exited", "paused"}]
WorkloadRecord == [container_id : {NoContainer} \cup Workloads,
                   state : {"running", "stopped", "failed", "exited", "paused"}]

WorkloadTypeOK ==
    /\ DOMAIN mem = {"workloads"} /\ DOMAIN disk = {"workloads"}
    /\ \A m \in {mem.workloads, disk.workloads} :
          DOMAIN m \subseteq Workloads /\ \A w \in DOMAIN m : m[w] \in WorkloadRecord
    /\ \A c \in DOMAIN containers : containers[c] \in Container
    /\ net.allocated_ips \in [DOMAIN net.allocated_ips -> HostParts]
    /\ net.next_ip \in HostParts \cup {LastSuffix + 1}

\* WorkloadNetManager::init.
NewNet == [allocated_ips |-> EmptyStore, container_to_workload |-> EmptyStore, next_ip |-> 2,
           free_pool |-> <<>>]

WorkloadInit ==
    /\ new({"workloads"}) /\ containers = EmptyStore /\ net = NewNet /\ runs = 0 /\ up = TRUE

-----------------------------------------------------------------------------
\* The workload network.

\* A released address is used again before a new one.
next_suffix(n) == IF n.free_pool # <<>> THEN {n.free_pool[Len(n.free_pool)]}
                  ELSE IF n.next_ip <= LastSuffix THEN {n.next_ip} ELSE {}

allocate_ip(n, w) ==
    IF next_suffix(n) = {} THEN n
    ELSE LET s == CHOOSE s \in next_suffix(n) : TRUE IN
         [n EXCEPT !.allocated_ips = Put(@, w, s),
                   !.free_pool = IF @ = <<>> THEN @ ELSE SubSeq(@, 1, Len(@) - 1),
                   !.next_ip = IF n.free_pool = <<>> THEN @ + 1 ELSE @]

release_keeping(n, w) ==
    IF w \notin DOMAIN n.allocated_ips THEN n
    ELSE [n EXCEPT !.free_pool = Append(@, n.allocated_ips[w])]

release_ip(n, w) ==
    IF w \notin DOMAIN n.allocated_ips THEN n
    ELSE [n EXCEPT !.allocated_ips = Drop(@, w), !.free_pool = Append(@, n.allocated_ips[w])]

track_container(n, c, w) == [n EXCEPT !.container_to_workload = Put(@, c, w)]

\* A container that is not tracked is looked up under its own id, which is never
\* the workload's: the CLI's containers keep their addresses.
release_by_container(n, c) ==
    IF c \notin DOMAIN n.container_to_workload THEN n
    ELSE release_ip([n EXCEPT !.container_to_workload = Drop(@, c)], n.container_to_workload[c])

-----------------------------------------------------------------------------
WorkloadStore_upsert(p, w, record) == write("workloads", Put(view(p).workloads, w, record))

update_state(m, w, state) == [m EXCEPT ![w].state = state]

find_by_container_id(p, c) == {w \in DOMAIN view(p).workloads : view(p).workloads[w].container_id = c}

running(m) == {w \in DOMAIN m : m[w].state = "running"}

\* The runtime refuses a name that a container has, and an address that a running
\* one has.
taken(name, ip) == \E c \in DOMAIN containers :
                      \/ name # {} /\ containers[c].name = name
                      \/ ip # {} /\ containers[c].status # "exited" /\ containers[c].ip = ip

\* The address of workload w, when there is a network.
with_ip(p, w) == IF p = "daemon" THEN allocate_ip(net, w) ELSE net

address(n, w) == IF w \in DOMAIN n.allocated_ips THEN {n.allocated_ips[w]} ELSE {}

\* The SDK passes on neither the address nor the name (a label only): the container
\* gets any address of the network that no running container has.
held(ip) == IF ~ Sdk \/ ip = {} THEN {ip}
            ELSE {{s} : s \in {s \in HostParts : ~ taken({}, {s})}}

\* The container is up (or, when not detached, has ended), and is recorded as
\* running.
run_succeeds(p, name, detach) ==
    LET w == runs + 1
        n == with_ip(p, w)
        ip == IF p = "daemon" THEN address(n, w) ELSE {}
    IN  /\ Sdk \/ ~ taken(name, ip)
        /\ \E own \in held(ip) :
              containers' = Put(containers, w, [name |-> IF Sdk THEN {} ELSE name, ip |-> own,
                                                status |-> IF detach THEN "running" ELSE "exited"])
        /\ net' = IF Sdk /\ ip # {} THEN track_container(n, w, w) ELSE n
        /\ commit(p, WorkloadStore_upsert(p, w, [container_id |-> IF detach THEN w ELSE NoContainer,
                                                 state |-> "running"]),
                  Ok("workload.run", w))

\* A container that was created and could not be started.  It runs nothing and holds no
\* address, as one that has exited.
left_behind(name) == [name |-> IF Sdk THEN {} ELSE name, ip |-> {}, status |-> "exited"]

\* The runtime refuses to create the container or to start it: the address is given back,
\* a container that was created stays.
run_fails(p, name) ==
    LET w == runs + 1 IN
    /\ net' = IF p = "daemon" THEN release_ip(with_ip(p, w), w) ELSE net
    /\ \/ UNCHANGED containers
       \/ /\ Sdk \/ ~ taken(name, {})
          /\ containers' = Put(containers, w, left_behind(name))
    /\ respond(Err("workload.run"))

\* The CLI cannot even be executed: `?` returns with the address allocated.
run_not_executed(p) ==
    /\ ~ Sdk /\ net' = with_ip(p, runs + 1)
    /\ respond(Err("workload.run")) /\ UNCHANGED containers

\* Without an address the SDK's run is refused; the CLI's goes to the default
\* network.
exhausted(p) == Sdk /\ p = "daemon" /\ next_suffix(net) = {}

workload_run(p, name, detach) ==
    /\ runs < MaxRuns /\ runs' = runs + 1
    /\ IF exhausted(p) THEN respond(Err("workload.run")) /\ UNCHANGED <<containers, net>>
       ELSE \/ run_succeeds(p, name, detach \/ Sdk)
            \/ run_fails(p, name)
            \/ run_not_executed(p)

\* The containers a target, an id or a name, stands for.
targets(t) == {c \in DOMAIN containers : t = [id |-> c] \/ \E n \in containers[c].name : t = [name |-> n]}

stopped(c) == [containers EXCEPT ![c].status = "exited"]

\* The record that names the target as its container's id.
stop_record(p, t) ==
    IF \E c \in targets(t) : t = [id |-> c] /\ find_by_container_id(p, c) # {}
    THEN LET c == CHOOSE c \in targets(t) : TRUE
             w == CHOOSE w \in find_by_container_id(p, c) : TRUE
         IN  write("workloads", update_state(view(p).workloads, w, "stopped"))
    ELSE <<>>

stop_succeeds(p, t) ==
    \E c \in targets(t) :
        /\ containers' = stopped(c)
        /\ net' = IF p = "daemon" /\ t = [id |-> c] THEN release_by_container(net, c) ELSE net
        /\ commit(p, stop_record(p, t), Ok("workload.stop", t))

stop_recorded_first(p, t) ==
    /\ \/ stop_succeeds(p, t)
       \/ commit(p, stop_record(p, t), Err("workload.stop")) /\ UNCHANGED <<containers, net>>
    /\ UNCHANGED runs

workload_stop(p, t) ==
    /\ \/ stop_succeeds(p, t)
       \/ respond(Err("workload.stop")) /\ UNCHANGED <<containers, net>>
    /\ UNCHANGED runs

\* logs, list, inspect, stats and exec ask the runtime and change nothing here.
workload_logs(t) == respond(Ok("workload.logs", t))

workload_list == respond(Ok("workload.list", DOMAIN containers))

workload_inspect(t) ==
    respond(IF targets(t) = {} THEN Err("workload.inspect")
            ELSE Ok("workload.inspect", {containers[c].status : c \in targets(t)}))

workload_stats(t) == respond(IF targets(t) = {} THEN Err("workload.stats") ELSE Ok("workload.stats", t))

container_exec(t) == \E success \in BOOLEAN : respond(Ok("container.exec", success))

\* Each running container is stopped, whatever comes of it; no record changes.
node_drain ==
    /\ \E some \in SUBSET {c \in DOMAIN containers : containers[c].status = "running"} :
          containers' = [c \in DOMAIN containers |->
                            IF c \in some THEN [containers[c] EXCEPT !.status = "exited"]
                            ELSE containers[c]]
    /\ respond(Ok("node.drain", "drained")) /\ UNCHANGED <<net, runs>>

handle_command(p) ==
    \/ \E name \in option(ContainerNames), detach \in BOOLEAN : workload_run(p, name, detach)
    \/ \E t \in [id : Workloads] \cup [name : ContainerNames] :
          \/ workload_stop(p, t)
          \/ /\ workload_logs(t) \/ workload_inspect(t) \/ workload_stats(t) \/ container_exec(t)
             /\ UNCHANGED <<containers, net, runs>>
    \/ workload_list /\ UNCHANGED <<containers, net, runs>>
    \/ node_drain

-----------------------------------------------------------------------------
reconciled_when_found(record) ==
    LET c == record.container_id IN
    {IF c \in DOMAIN containers THEN [record EXCEPT !.state = containers[c].status] ELSE record}

\* The state of a record that was running, after the startup has inspected its
\* container; an inspection that fails counts as one that finds nothing.
reconciled(record) ==
    LET c == record.container_id IN
    IF record.state # "running" \/ c \notin DOMAIN containers
    THEN {[record EXCEPT !.state = IF @ = "running" THEN "exited" ELSE @]}
    ELSE {[record EXCEPT !.state = containers[c].status], [record EXCEPT !.state = "exited"]}

\* The records are saved one after the other; the last save writes them all.
reconcile_workloads(m) ==
    {r \in [DOMAIN m -> UNION {reconciled(m[w]) : w \in DOMAIN m}] :
        \A w \in DOMAIN m : r[w] \in reconciled(m[w])}

\* The daemon is stopped if it is up, and started: the network manager knows of no
\* container.
restart_and_reconcile ==
    /\ \E after \in reconcile_workloads(disk.workloads) :
          mem' = [workloads |-> after] /\ disk' = [workloads |-> after]
    /\ net' = NewNet /\ reply' = [cmd |-> "restart"] /\ up' = TRUE
    /\ UNCHANGED <<clock, faults, containers, runs>>

-----------------------------------------------------------------------------
\* What happens without a command.
container_changes ==
    /\ \E c \in DOMAIN containers :
          \/ /\ containers[c].status \in {"running", "paused"}
             /\ \E s \in {"running", "exited", "paused"} : containers' = [containers EXCEPT ![c].status = s]
          \/ containers' = Drop(containers, c)
    /\ respond(NoReply) /\ UNCHANGED <<net, runs, up>>

\* A daemon that dies in a command stays down until it is started.
WorkloadNext ==
    \/ \E p \in Procs : /\ p = "daemon" => up
                        /\ handle_command(p)
                        /\ up' = (up /\ ~ (p = "daemon" /\ reply' = NoReply))
    \/ restart_and_reconcile
    \/ container_changes

WorkloadSpec == WorkloadInit /\ [][WorkloadNext]_workload_vars

-----------------------------------------------------------------------------
\* A workload recorded as stopped has no running container: the record changes only
\* after the runtime has stopped the very container it names, whatever target, id
\* or name, workload.stop is given.
StoppedIsStopped ==
    \A w \in DOMAIN mem.workloads :
        mem.workloads[w].state = "stopped"
        => ~ \E c \in DOMAIN containers : /\ c = mem.workloads[w].container_id
                                          /\ containers[c].status = "running"

\* Every address handed out so far is either allocated to one workload or free
\* once, and no two running containers have the same one: through failed runs,
\* stops, drains and restarts that forget the allocations.
AddressesAccounted ==
    /\ \A s \in HostParts :
          Cardinality({w \in DOMAIN net.allocated_ips : net.allocated_ips[w] = s})
          + Cardinality({i \in DOMAIN net.free_pool : net.free_pool[i] = s})
          = IF s < net.next_ip THEN 1 ELSE 0
    /\ \A c, d \in DOMAIN containers :
          /\ c # d /\ containers[c].ip # {}
          /\ containers[c].status = "running" /\ containers[d].status = "running"
          => containers[c].ip # containers[d].ip

\* The step that starts the node records as running only workloads whose container was
\* running at that moment.
ReconciledTruly ==
    reply'.cmd = "restart" =>
    \A w \in running(mem'.workloads) :
        \E c \in DOMAIN containers : /\ c = mem'.workloads[w].container_id
                                     /\ containers[c].status = "running"

\* workload.stop: "Release workload IP if allocated".  It does with the SDK alone: the
\* CLI's containers are not tracked.
StopReleasesAddress ==
    reply.cmd = "workload.stop" => \A w \in Workloads :
        (reply = Ok("workload.stop", [id |-> w])) => w \notin DOMAIN net.allocated_ips

\* Workload records, containers and addresses agree: what is recorded as stopped does
\* not run, every address is held once or free once and no two running containers
\* have the same one (workload.run, workload.stop, release_ip).
WorkloadRecordsTrue == "workloads" \in DOMAIN mem => StoppedIsStopped /\ AddressesAccounted
=============================================================================
