------------------------- MODULE ContainerRuntimes -------------------------
(***************************************************************************)
(* DockerContainerRuntime of crates/clawnode/src/docker.rs over            *)
(* DockerRuntime of crates/claw-compute/src/container and the Docker       *)
(* daemon.  The node creates, stops and removes containers and streams     *)
(* their logs; an embedder of claw-compute uses DockerRuntime directly,    *)
(* with ContainerRuntimeExt.  Docker may refuse any call, and containers   *)
(* exit, restart and die by themselves.                                    *)
(***************************************************************************)
EXTENDS Naturals, FiniteSets, TLC

CONSTANTS Gpus,        \* the GPUs of the machine
          Specs,       \* the node's specs: sets of [gpu_ids, managed]
          Configs,     \* the embedder's configurations: ContainerConfig
          NoName,      \* stands for the fresh name the node gives to each container
          Polls,       \* the polls after which a log stream ends: 101
          MaxIds,      \* bound: containers created
          MaxStreams   \* bound: log streams opened

VARIABLES docker,      \* the Docker daemon: id -> container
          tracked,     \* DockerContainerRuntime::containers: id -> [state, gpu_ids]
          streams,     \* the tasks of stream_logs: number -> [id, count, open]
          ids,         \* ids the Docker daemon has given out
          answer       \* the answer to the last call

vars == <<docker, tracked, streams, ids, answer>>

Ids == 1 .. MaxIds
Statuses == {"created", "running", "paused", "restarting", "exited", "dead"}
ContainerState == {"Creating", "Created", "Starting", "Running", "Paused", "Stopping",
                   "Stopped", "Exited", "Failed", "Error", "Unknown"}

ContainerConfig == [name : STRING, valid : BOOLEAN, devices : SUBSET Gpus, capabilities : BOOLEAN,
                    restart : BOOLEAN, managed : BOOLEAN]
DockerContainer == [name : {NoName} \cup {c.name : c \in Configs}, managed : BOOLEAN,
                    gpus : SUBSET Gpus, restart : BOOLEAN, status : Statuses]

TypeOK == /\ Configs \subseteq ContainerConfig
          /\ DOMAIN docker \subseteq 1 .. ids /\ ids <= MaxIds
          /\ \A c \in DOMAIN docker : docker[c] \in DockerContainer
          /\ DOMAIN tracked \subseteq 1 .. ids
          /\ \A c \in DOMAIN tracked : tracked[c] \in [state : ContainerState, gpu_ids : SUBSET Gpus]
          /\ \A s \in DOMAIN streams : streams[s] \in [id : Ids, count : 0 .. Polls, open : BOOLEAN]

Put(f, k, v) == [x \in DOMAIN f \cup {k} |-> IF x = k THEN v ELSE f[x]]
Drop(f, k) == [x \in DOMAIN f \ {k} |-> f[x]]
Ok(call) == [call |-> call, ok |-> TRUE]
Err(call) == [call |-> call, ok |-> FALSE]

Init == /\ docker = <<>> /\ tracked = <<>> /\ streams = <<>> /\ ids = 0
        /\ answer = Ok("connect")

-----------------------------------------------------------------------------
\* The conversions between the node's spec, claw-compute's configuration and what
\* Docker is asked for.

\* Variant: the requirements are set whether or not there are any.
gpu_requirements_always(gpu_ids) == [devices |-> gpu_ids, capabilities |-> TRUE]

\* GpuRequirements of a spec: none, unless it names GPUs.
gpu_requirements(gpu_ids) ==
    [devices |-> gpu_ids, capabilities |-> gpu_ids # {}]

spec_to_config(spec) ==
    [name |-> NoName, valid |-> TRUE, restart |-> FALSE, managed |-> spec.managed]
    @@ gpu_requirements(spec.gpu_ids)

is_enabled(config) == config.devices # {} \/ config.capabilities

\* No device named means all of them, once GPUs are enabled.
configure_gpu(config) ==
    IF ~ is_enabled(config) THEN {} ELSE IF config.devices = {} THEN Gpus ELSE config.devices

build_host_config(config) == [gpus |-> configure_gpu(config), restart |-> config.restart]

\* Docker sets the flag `running` of paused and of restarting containers too.
flags(word) == [running |-> word \in {"running", "paused", "restarting"},
                  paused |-> word = "paused", restarting |-> word = "restarting",
                  dead |-> word = "dead"]

bollard_state_to_state(word) ==
    LET s == flags(word) IN
    CASE s.running -> "Running"
      [] ~ s.running /\ s.paused -> "Paused"
      [] ~ s.running /\ ~ s.paused /\ s.restarting -> "Starting"
      [] ~ s.running /\ ~ s.paused /\ ~ s.restarting /\ s.dead -> "Error"
      [] OTHER -> IF word = "created" THEN "Created" ELSE "Exited"

status(c) == bollard_state_to_state(docker[c].status)

\* DockerRuntime::list reads the status word instead.
summary_state(word) ==
    CASE word = "running" -> "Running"
      [] word = "paused" -> "Paused"
      [] word = "created" -> "Created"
      [] word = "exited" -> "Exited"
      [] word = "dead" -> "Error"
      [] OTHER -> "Unknown"

convert_state(state) ==
    CASE state = "Created" -> "Creating"
      [] state \in {"Running", "Paused", "Stopping", "Exited"} -> state
      [] OTHER -> "Failed"

-----------------------------------------------------------------------------
\* DockerRuntime: the effect on Docker of a call that succeeds.
can_create(config) ==
    /\ config.valid /\ ids < MaxIds
    /\ config.name = NoName \/ \A c \in DOMAIN docker : docker[c].name # config.name

DockerRuntime_create(config, word) ==
    /\ can_create(config) /\ ids' = ids + 1
    /\ docker' = Put(docker, ids', [name |-> config.name, managed |-> config.managed, status |-> word]
                                   @@ build_host_config(config))

set_status(c, word) == docker' = [docker EXCEPT ![c].status = word]

can_start(c) == docker[c].status \in {"created", "exited", "running"}

\* Stopping a container that does not run is no error.
DockerRuntime_stop(c) ==
    IF flags(docker[c].status).running THEN set_status(c, "exited") ELSE UNCHANGED docker

-----------------------------------------------------------------------------
\* The node's calls.  A failed start leaves the created container behind, unknown
\* to the node.
create(spec) ==
    /\ \/ /\ DockerRuntime_create(spec_to_config(spec), "running")
          /\ tracked' = Put(tracked, ids', [state |-> "Creating", gpu_ids |-> spec.gpu_ids])
          /\ answer' = Ok("create")
       \/ /\ DockerRuntime_create(spec_to_config(spec), "created")
          /\ UNCHANGED tracked /\ answer' = Err("create")
       \/ UNCHANGED <<docker, ids, tracked>> /\ answer' = Err("create")
    /\ UNCHANGED streams

track(c, state) ==
    tracked' = IF c \in DOMAIN tracked THEN [tracked EXCEPT ![c].state = state] ELSE tracked

fails(call) == answer' = Err(call) /\ UNCHANGED <<docker, tracked>>

start(c) ==
    \/ /\ c \in DOMAIN docker /\ can_start(c)
       /\ set_status(c, "running") /\ track(c, "Running") /\ answer' = Ok("start")
    \/ fails("start")

stop(c) ==
    \/ /\ c \in DOMAIN docker
       /\ DockerRuntime_stop(c) /\ track(c, "Stopped") /\ answer' = Ok("stop")
    \/ fails("stop")

remove(c) ==
    \/ /\ c \in DOMAIN docker
       /\ docker' = Drop(docker, c) /\ tracked' = Drop(tracked, c) /\ answer' = Ok("remove")
    \/ fails("remove")

get(c) ==
    /\ UNCHANGED <<docker, tracked>>
    /\ \/ /\ c \in DOMAIN docker
          /\ answer' = Ok("get") @@ [id |-> c, state |-> convert_state(status(c)),
                                  gpu_ids |-> IF c \in DOMAIN tracked THEN tracked[c].gpu_ids ELSE {}]
       \/ answer' = Err("get")

list ==
    /\ UNCHANGED <<docker, tracked>>
    /\ answer' = Ok("list") @@ [containers |-> {[id |-> c, state |-> convert_state(summary_state(docker[c].status))] :
                                c \in {c \in DOMAIN docker : docker[c].managed}}]

\* An error of the stream ends the reading: also without the container the answer is Ok.
logs(c) == UNCHANGED <<docker, tracked>> /\ answer' = Ok("logs")

\* The task of a stream polls once a second until the container is no longer
\* tracked as running, or it has polled often enough.
stream_logs(c) ==
    /\ Cardinality(DOMAIN streams) < MaxStreams
    /\ streams' = Put(streams, Cardinality(DOMAIN streams) + 1, [id |-> c, count |-> 0, open |-> TRUE])
    /\ answer' = Ok("stream_logs")
    /\ UNCHANGED <<docker, tracked, ids>>

is_running(c) == c \in DOMAIN tracked /\ tracked[c].state = "Running"

\* Variant: the polls are not counted.
stream_poll_uncounted(s) ==
    /\ streams[s].open
    /\ streams' = IF ~ is_running(streams[s].id) THEN [streams EXCEPT ![s].open = FALSE] ELSE streams
    /\ UNCHANGED <<docker, tracked, ids, answer>>

stream_poll(s) ==
    /\ streams[s].open
    /\ streams' = IF ~ is_running(streams[s].id) \/ streams[s].count = Polls
                  THEN [streams EXCEPT ![s].open = FALSE]
                  ELSE [streams EXCEPT ![s].count = @ + 1]
    /\ UNCHANGED <<docker, tracked, ids, answer>>

-----------------------------------------------------------------------------
\* The embedder's calls, which the node's tracking does not see.

\* A failed start leaves the container created: another run of the same name is
\* refused.
run(config) ==
    \/ DockerRuntime_create(config, "running") /\ answer' = Ok("run")
    \/ DockerRuntime_create(config, "created") /\ answer' = Err("run")
    \/ UNCHANGED <<docker, ids>> /\ answer' = Err("run")

\* The stop's error is ignored.
stop_and_remove(c) ==
    /\ UNCHANGED ids
    /\ \/ c \in DOMAIN docker /\ docker' = Drop(docker, c) /\ answer' = Ok("stop_and_remove")
       \/ c \in DOMAIN docker /\ DockerRuntime_stop(c) /\ answer' = Err("stop_and_remove")
       \/ UNCHANGED docker /\ answer' = Err("stop_and_remove")

pause(c) == /\ c \in DOMAIN docker /\ docker[c].status = "running"
            /\ set_status(c, "paused") /\ answer' = Ok("pause") /\ UNCHANGED ids

unpause(c) == /\ c \in DOMAIN docker /\ docker[c].status = "paused"
              /\ set_status(c, "running") /\ answer' = Ok("unpause") /\ UNCHANGED ids

\* A poll of wait_for_state that ends the wait: the state is there, or time is up.
wait_for_state(c, state) ==
    /\ c \in DOMAIN docker
    /\ answer' = IF status(c) = state
                 THEN Ok("wait_for_state") ELSE Err("wait_for_state")
    /\ UNCHANGED <<docker, ids>>

observe(call, c) == /\ answer' = IF c \in DOMAIN docker THEN Ok(call) ELSE Err(call)
                    /\ UNCHANGED <<docker, ids>>

stats(c) == observe("stats", c)

\* A command runs only in a container that does.
exec(c) == /\ c \in DOMAIN docker => docker[c].status = "running"
           /\ observe("exec", c)

\* The call returns when the container has ended.
wait(c) == /\ c \in DOMAIN docker => ~ flags(docker[c].status).running
           /\ observe("wait", c)

\* Docker by itself.
container_ends(c) ==
    /\ flags(docker[c].status).running /\ docker[c].status # "paused"
    /\ \E s \in {"exited", "dead"} \cup (IF docker[c].restart THEN {"restarting"} ELSE {}) :
          set_status(c, s)
    /\ UNCHANGED <<tracked, streams, ids, answer>>

container_restarts(c) ==
    /\ docker[c].status = "restarting" /\ set_status(c, "running")
    /\ UNCHANGED <<tracked, streams, ids, answer>>

node_call ==
    \/ \E spec \in Specs : create(spec)
    \/ \E c \in Ids : /\ start(c) \/ stop(c) \/ remove(c) \/ get(c) \/ logs(c)
                      /\ UNCHANGED <<streams, ids>>
    \/ list /\ UNCHANGED <<streams, ids>>
    \/ \E c \in Ids : stream_logs(c)

embedder_call ==
    /\ \/ \E config \in Configs : run(config)
       \/ \E c \in Ids : \/ stop_and_remove(c) \/ pause(c) \/ unpause(c) \/ stats(c) \/ exec(c) \/ wait(c)
                         \/ \E state \in {"Running", "Paused", "Exited"} : wait_for_state(c, state)
    /\ UNCHANGED <<tracked, streams>>

Next == \/ node_call
        \/ embedder_call
        \/ \E s \in DOMAIN streams : stream_poll(s)
        \/ \E c \in DOMAIN docker : container_ends(c) \/ container_restarts(c)

\* Spawned tasks are run to their end.
Fairness == \A s \in 1 .. MaxStreams : WF_vars(s \in DOMAIN streams /\ stream_poll(s))

Spec == Init /\ [][Next]_vars /\ Fairness

-----------------------------------------------------------------------------
\* A container the node tracks sees exactly the GPUs its spec names: none named is
\* none seen, although to DockerRuntime an empty list of devices means all GPUs.
GpusPassedExactly ==
    \A c \in DOMAIN tracked \cap DOMAIN docker : docker[c].gpus = tracked[c].gpu_ids

Contract == INSTANCE ContainerContract WITH
    containers <- [c \in DOMAIN docker |-> [gpus |-> docker[c].gpus, up |-> flags(docker[c].status).running]],
    used <- 1 .. ids

\* Docker, driven by the node and by an embedder at once, keeps the contract of a container
\* runtime: no call gives a container other GPUs or brings back one that is gone.
KeepsContract == Contract!Spec

\* The task behind stream_logs ends, whatever becomes of the container: its receiver
\* is not left waiting.
StreamsEnd == \A s \in 1 .. MaxStreams : s \in DOMAIN streams ~> s \in DOMAIN streams /\ ~ streams[s].open

\* docker.rs, AsyncContainerRuntime::stream_logs: "Stream logs in real-time (returns
\* lines as they arrive)."  The stream of a container that runs stays open for its
\* polls.
StreamsFollow ==
    \A s \in DOMAIN streams :
        LET c == streams[s].id IN
        ~ streams[s].open /\ streams[s].count = 0 => ~ (c \in DOMAIN docker /\ docker[c].status = "running")

\* status.rs: "Container is paused.": get tells of a paused container that it is.
PausedIsTold ==
    [][(answer'.call = "get" /\ answer'.ok) =>
          \A c \in DOMAIN docker : c = answer'.id /\ docker[c].status = "paused" =>
             answer'.state = "Paused"]_answer
=============================================================================
