-------------------------- MODULE ContainerConfigs --------------------------
(***************************************************************************)
(* ContainerConfig and its builder methods,                                *)
(* crates/claw-compute/src/container/config.rs, and what DockerRuntime     *)
(* (docker.rs) asks of the Docker daemon for such a configuration.  An     *)
(* embedder calls builder methods in any order and then create.  An Option *)
(* is a set of at most one element; sizes are u64 in the configuration and *)
(* i64 in the request, both of the width W.                                *)
(***************************************************************************)
EXTENDS Integers, Sequences, SequencesExt

CONSTANTS Half,       \* 2^63
          Unit,       \* bytes in a GiB
          Names,      \* container names, as sequences of kinds of characters
          Sizes,      \* numbers of bytes or GiB callers give
          Specifiers, \* the devices of the machine, as device_specifier names them
          MaxCalls    \* bound: builder calls

VARIABLES config,     \* the ContainerConfig under construction
          request,    \* {} or what create asked Docker for, of config as it is
          calls       \* history: the builder calls made for each field

vars == <<config, request, calls>>

W == 2 * Half
as_i64(n) == IF n >= Half THEN n - W ELSE n

-----------------------------------------------------------------------------
\* The parts of a configuration.
limit_bytes(n) == [limit |-> n, reservation |-> 0, swap |-> 0, swappiness |-> {},
                   oom_kill_disable |-> FALSE]

\* Variant: as limit_mb does, in another unit.
limit_gb_unscaled(n) == limit_bytes(n)

\* The product wraps (a release build does not check it).
limit_gb(n) == limit_bytes((n * Unit) % W)

with_reservation_bytes(m, n) == [m EXCEPT !.reservation = n]
with_swap_bytes(m, n) == [m EXCEPT !.swap = n]
with_no_swap(m) == with_swap_bytes(m, -1)
with_swappiness(m, v) == [m EXCEPT !.swappiness = {IF v < 100 THEN v ELSE 100}]

unlimited == [shares |-> 1024, quota |-> 0, period |-> 100000, cpuset_cpus |-> {},
              cpuset_mems |-> {}, nano_cpus |-> 0]
cpus(nano) == [unlimited EXCEPT !.nano_cpus = nano]
pinned(set) == [unlimited EXCEPT !.cpuset_cpus = {set}]
with_quota(c, quota, period) == [c EXCEPT !.quota = quota, !.period = period]

\* A device has an index, and may have a uuid and a MIG id.
by_index(n) == [index |-> n, uuid |-> {}, mig |-> {}]
by_uuid(u) == [index |-> 0, uuid |-> {u}, mig |-> {}]
with_mig(d, id) == [d EXCEPT !.mig = {id}]

device_specifier(d) == IF d.uuid # {} THEN <<"uuid", d.uuid>>
                       ELSE IF d.mig # {} THEN <<"MIG", d.mig>> ELSE <<"index", d.index>>

none == [devices |-> <<>>, capabilities |-> {}]
devices(ds) == [devices |-> ds, capabilities |-> {"compute", "utility"}]
all == devices(<<>>)
count(n) == devices([i \in 1 .. n |-> by_index(i - 1)])
with_capabilities(g, caps) == [g EXCEPT !.capabilities = caps]

mount(type, source, target) == [type |-> type, source |-> source, target |-> target, read_only |-> FALSE]
read_only(v) == [v EXCEPT !.read_only = TRUE]

-----------------------------------------------------------------------------
Config_new(name) ==
    [name |-> name, image |-> {"image"}, memory |-> limit_bytes(0), cpu |-> unlimited, gpu |-> none,
     network_mode |-> <<"bridge">>, volumes |-> <<>>, ports |-> <<>>, labels |-> <<>>, env |-> <<>>,
     restart_policy |-> <<"no">>, privileged |-> FALSE, auto_remove |-> FALSE,
     command |-> {}, entrypoint |-> {}, working_dir |-> {}, user |-> {}, hostname |-> {},
     stop_timeout |-> {}, healthcheck |-> {}]

Inserted == {"env", "ports", "labels"}

\* Variant: a volume replaces the ones before it.
built_replacing(c, call) ==
    CASE call.field \in Inserted -> [c EXCEPT ![call.field] = (call.key :> call.value) @@ @]
      [] call.field = "volumes" -> [c EXCEPT !.volumes = <<call.value>>]
      [] OTHER -> [c EXCEPT ![call.field] = call.value]

\* A builder method inserts into a map, pushes a volume or replaces the field.
built(c, call) ==
    CASE call.field \in Inserted -> [c EXCEPT ![call.field] = (call.key :> call.value) @@ @]
      [] call.field = "volumes" -> [c EXCEPT !.volumes = Append(@, call.value)]
      [] OTHER -> [c EXCEPT ![call.field] = call.value]

\* Variant: the reservation is not compared with the limit.
validate_names_only(c) == c.name # <<>> /\ c.image # {}

validate(c) ==
    /\ c.name # <<>> /\ c.image # {}
    /\ Range(c.name) \subseteq {"alphanumeric", "_", "-", "."}
    /\ c.memory.reservation <= c.memory.limit \/ c.memory.limit = 0

-----------------------------------------------------------------------------
\* What is positive is passed on; the rest is left to Docker.
positive(n) == IF n > 0 THEN {as_i64(n)} ELSE {}

is_enabled(g) == g.capabilities # {} \/ g.devices # <<>>

configure_gpu(g) ==
    IF g.devices = <<>> THEN [capabilities |-> g.capabilities, count |-> {-1}, device_ids |-> {}]
    ELSE [capabilities |-> g.capabilities, count |-> {},
          device_ids |-> {device_specifier(d) : d \in Range(g.devices)}]

restart_policy_to_bollard(p) ==
    [name |-> p[1], maximum_retry_count |-> IF p[1] = "on-failure" THEN {p[2]} ELSE {}]

build_host_config(c) ==
    [memory |-> positive(c.memory.limit), memory_reservation |-> positive(c.memory.reservation),
     memory_swap |-> IF c.memory.swap # 0 THEN {c.memory.swap} ELSE {},
     memory_swappiness |-> c.memory.swappiness, oom_kill_disable |-> c.memory.oom_kill_disable,
     cpu_shares |-> positive(c.cpu.shares), cpu_quota |-> positive(c.cpu.quota),
     cpu_period |-> positive(c.cpu.period), cpuset_cpus |-> c.cpu.cpuset_cpus,
     cpuset_mems |-> c.cpu.cpuset_mems, nano_cpus |-> positive(c.cpu.nano_cpus),
     network_mode |-> c.network_mode, mounts |-> c.volumes, port_bindings |-> c.ports,
     restart_policy |-> restart_policy_to_bollard(c.restart_policy),
     privileged |-> c.privileged, auto_remove |-> c.auto_remove,
     device_requests |-> IF is_enabled(c.gpu) THEN {configure_gpu(c.gpu)} ELSE {}]

\* Neither stop_timeout nor healthcheck has a place in it.
docker_config(c) ==
    [name |-> c.name, cmd |-> c.command, entrypoint |-> c.entrypoint, env |-> c.env,
     working_dir |-> c.working_dir, user |-> c.user, hostname |-> c.hostname, labels |-> c.labels,
     exposed_ports |-> DOMAIN c.ports, host_config |-> build_host_config(c)]

-----------------------------------------------------------------------------
\* A builder call sets a field, or an entry of it, to a value; asked is history: what
\* its caller wants of Docker.
Set(field, value, asked) == [field |-> field, value |-> value, asked |-> asked]
Sets(field, values) == {Set(field, v, v) : v \in values}
Insert(field, key, value) == [field |-> field, key |-> key, value |-> value, asked |-> value]

\* GpuRequirements::count(n) asks for the first n GPUs.
counted(n) == Set("gpu", count(n), {<<"index", i>> : i \in 0 .. n - 1})

Calls ==
    [memory |-> UNION {{Set("memory", limit_bytes(n), n), Set("memory", limit_gb(n), n * Unit),
                        Set("memory", with_no_swap(with_reservation_bytes(limit_bytes(n), 3)), n)} :
                           n \in Sizes} \cup {Set("memory", with_swappiness(limit_bytes(0), 200), 0)},
     gpu |-> {Set("gpu", none, {}), Set("gpu", all, Specifiers), counted(0), counted(1),
              Set("gpu", devices(<<by_uuid("u"), with_mig(by_index(0), "m")>>),
                  {<<"uuid", {"u"}>>, <<"MIG", {"m"}>>}),
              Set("gpu", with_capabilities(devices(<<by_index(0)>>), {}), {<<"index", 0>>})},
     cpu |-> Sets("cpu", {cpus(1), pinned("0-1"), with_quota(unlimited, 5, 10)}),
     volumes |-> Sets("volumes", {mount("bind", "a", "b"), read_only(mount("tmpfs", "", "c"))}),
     ports |-> {Insert("ports", 80, 1), Insert("ports", 80, 2), Insert("ports", 81, 1)},
     restart_policy |-> Sets("restart_policy", {<<"on-failure", 0>>}),
     healthcheck |-> Sets("healthcheck", {{"h"}})]

Init == /\ config \in {Config_new(name) : name \in Names}
        /\ request = {} /\ calls = [field \in DOMAIN Calls |-> <<>>]

build(call) ==
    /\ MapThenSumSet(LAMBDA field : Len(calls[field]), DOMAIN calls) < MaxCalls
    /\ config' = built(config, call) /\ calls' = [calls EXCEPT ![call.field] = Append(@, call)]
    /\ request' = {}

create == /\ request' = IF validate(config) THEN {docker_config(config)} ELSE {}
          /\ UNCHANGED <<config, calls>>

Next == (\E field \in DOMAIN Calls : \E call \in Calls[field] : build(call)) \/ create

Spec == Init /\ [][Next]_vars

-----------------------------------------------------------------------------
\* What the last call for a field asked for.
LastFor(field, default) == IF calls[field] = <<>> THEN default ELSE Last(calls[field]).asked

\* The last choice of GPUs was count(n).
LastCounted(n) == calls.gpu # <<>> /\ Last(calls.gpu) = counted(n)

\* The GPUs a request gives to the container.
Given(r) == UNION {IF g.count = {-1} THEN Specifiers ELSE g.device_ids : g \in r.host_config.device_requests}

\* What create asks Docker for is what the builder calls asked for: the last limit given,
\* in whatever unit (below 2^63 bytes), with no reservation above it, the last choice of
\* GPUs and no other, every volume in its order, and of each port the last binding.  The
\* exception is count(0), which is the same configuration as all(): every GPU is given.
RequestFollowsCalls ==
    \A r \in request :
        LET host == r.host_config IN
        /\ LastFor("memory", 0) \in 1 .. Half - 1 => host.memory = {LastFor("memory", 0)}
        /\ LastFor("memory", 0) = 0 => host.memory = {}
        /\ \A soft \in host.memory_reservation, hard \in host.memory : 0 <= hard => soft <= hard
        /\ Given(r) = IF LastCounted(0) THEN Specifiers ELSE LastFor("gpu", {})
        /\ Len(host.mounts) = Len(calls.volumes)
        /\ \A i \in DOMAIN host.mounts : host.mounts[i] = calls.volumes[i].asked
        /\ \A call \in Range(calls.ports) : call.key \in r.exposed_ports
        /\ calls.ports # <<>> =>
               LET last == Last(calls.ports) IN host.port_bindings[last.key] = last.asked

\* "Request a specific number of GPUs" (GpuRequirements::count, config.rs): when that was
\* the last choice of GPUs, create asks Docker for so many.
CountsGiven == \A r \in request : \A n \in {0, 1} : LastCounted(n) => Cardinality(Given(r)) = n
=============================================================================
