# Clawbernetes in TLA+

Clawbernetes is a set of Rust crates and a TypeScript plugin. A node agent (`clawnode`) connects to
a gateway over a WebSocket, runs containers for it and keeps its state in JSON files; the `claw-*`
crates are the libraries behind its commands, and `claw-cli` and the plugin are the operators' side.
The `molt-*` crates are a compute market: tokens and escrow, an order book, agents that buy and
sell, attestation, a peer-to-peer network with gossip. These modules specify the parts whose
correctness depends on orders of events, failures and limits that unit tests hardly reach. Every
definition is translated from the source; `PROJECT.json` maps it to its lines. Variants of a
definition, marked as such in the modules, are plausible mistakes in it, under which the property
named beside them in `PROJECT.json` fails.

## Parts and modules

**Node.** The gateway client executes one command at a time. A command works on a store in memory
that is written whole to its file, on containers, and on the kernel's chains; a `clawnode exec`
process runs one command on the same files.

| Module | Source | State and actions |
|---|---|---|
| `NodeWorkloads` | `clawnode` handlers, state; `claw-proto` workload | `workloads`, `allocated_gpus` and the runtime's `containers`. A handler holds `&mut NodeState`, so each is one step, with one disjunct per early return; container creation, stop and remove may each fail. |
| `GatewayClient` | `clawnode` client, main | Handshake, pairing, the `select!` loop, reconnection, and the bounded channel whose sender and receiver are the same task. A send that finds it full is `blocked`. |
| `Deployments` | `clawnode` deploy_cmd; `claw-deploy` | The `deploy.*` commands, one runtime call per step, over `mem` and `disk`. `Faults`: a replica that does not start, one that is created and does not start, a failed removal, a failed save, a crash (torn file included). |
| `JsonStore` | `claw-persist`; what the stores share | A store in memory and on disk; saves that fail, crashes between and inside the writes of a command, restarts, an `exec` process. The command modules below extend it. |
| `RecordCommands` | `clawnode` job_cmd, namespace_cmd, policy_cmd, config_cmd, autoscale_cmd, storage_cmd, secrets_cmd, auth_cmd; `claw-scheduler` and their other crates | Family by family: jobs and cron (`Batch*`), namespaces, labels, taints and policies (`Tenancy*`), config and autoscaling (`Setting*`), volumes and backups (`Storage*`), secrets, API keys and audit log (`Credential*`). A cipher text opens under the key it was closed with. |
| `MetricCommands` | `clawnode` metrics_cmd; `claw-metrics` | Series with retention, events, alert rules. |
| `WorkloadCommands` | `clawnode` commands, workload_net, lib; `claw-deploy` | `workload.*`, `container.exec`, `node.drain`, workload addresses, reconciliation at start-up, with and without the Docker SDK. |
| `NetworkCommands` | `clawnode` network_cmd, service_discovery, netpolicy, ingress_proxy; `claw-ingress` | Store, live state and iptables chains of services, policies and ingresses. |
| `NodeMesh` | `claw-network`; `clawnode` mesh, client | Address pools and counters per process, mesh membership, peer events and listings. |

**Runtimes and control.** These stand between the commands and Docker, or between people and the
gateway.

| Module | Source | State and actions |
|---|---|---|
| `ContainerContract` | trait `ContainerRuntime` | Abstract: an id names one container, with its GPUs; it comes and goes once. |
| `ContainerRuntimes` | `clawnode` docker; `claw-compute` container | Docker behind the node's runtime, log streams, an embedder's calls. Docker may refuse any call; containers exit and restart by themselves. Implements the contract. |
| `FakeRuntime` | `clawnode` runtime | The runtime of the tests, shared by threads, and `GpuAllocator`. Implements the contract, proved. |
| `ContainerConfigs` | `claw-compute` container config, docker | Builder calls in any order and the request made of them, with machine widths. |
| `CliSession` | `claw-cli` | Connection, requests without numbers, timeouts, the commands on top. |
| `ProtoWorkloads` | `claw-proto` | What a workload asks and whether a node meets it (`Placement*`); the record of how it went (`Record*`). |
| `Prometheus` | `claw-metrics` prometheus | Updates by threads while a scrape takes one series after the other. |
| `FleetPlugin` | `plugin/openclaw-clawbernetes` | Fleet tools (`Tool*`) and health monitor (`Monitor*`), with calls and checks that overlap and answers that are lost. |

**Market.**

| Module | Source | State and actions |
|---|---|---|
| `EscrowPromise` | | Abstract: once funds are in they leave at most once, whole, to one of the two parties. |
| `EscrowStates` | `molt-market`, `molt-token` escrow | The two state machines, the conversion between them, the fees. |
| `Marketplace` | `molt-market` escrow, orderbook, settlement | `EscrowAccount`: every public method, any caller, any time; implements `EscrowPromise`, proved. The order book (`Book*`): filter, score and settlement arithmetic with machine widths. |
| `MoltToken` | `molt-token` escrow, client; `molt-market` payment | `Escrow`: every method in any order (`Token*`). The shared client (`Ledger*`): `transfer` and `create_escrow` check under one lock and debit under another, so they are two steps. Both implement `EscrowPromise`. |
| `MoltAgents` | `molt-agent` | Buyer, provider, negotiation, autonomy policies (`Agent*`); the hourly budget and its file (`Budget*`). |
| `Attestation` | `molt-attestation` | Chains, trust score, challenges with the bounded nonce cache, checkpoints. |
| `MoltValues` | `molt-core` | Amounts, their text form, policy, reputation. |

**Network.**

| Module | Source | State and actions |
|---|---|---|
| `PeerPool`, `PeerDiversity` | `molt-p2p` connection, diversity | The pool over a tracker that knows peers by address only; the tracker by itself. |
| `PeerConnections` | `molt-p2p` connection | A bounded channel and its two ends (`Link*`); pings and the health test (`Health*`). |
| `Gossip` | `molt-p2p` gossip broadcast, node | Several nodes. Messages in flight are a set: reordered, lost or refused; nodes and peers come and go. |
| `GossipLimits` | `molt-p2p` gossip broadcast, rate_limit | One node's bounded caches with their eviction queues (`Cache*`); window, violations, bans (`Limiter*`). |
| `GossipExchange` | `molt-p2p` gossip node, message | Queries and answers, each node on its own clock (`Answer*`); frames between releases (`Wire*`). |
| `JobTunnels` | `molt-p2p` tunnel | Creation and closing over three locks, calls dropped at every await. |
| `MoltNode` | `molt-p2p` network, discovery | Join, leave, stored capacities, provider search. |
| `NatTraversal` | `molt-p2p` nat | STUN discovery with late answers and a network that changes. |

The modules named `*Proofs` hold proofs: `NodeServicesProofs` those of the gateway client and the
deployments, `StoreProofs` those of the stored records, `WorkloadProofs` those of the workload
commands, `ControlProofs` those of the mesh, the command line and the runtime of the tests, `MarketProofs` those of the escrow accounts, the order book and attestation, `PeerProofs`
those of pool, links, gossip, tunnels and NAT traversal. Those of `MoltToken` are at its end. Each `MC*` module puts components that share no variable into one model. A
variable `part`, fixed at the start, says which one moves, so the product is never explored. What
holds of one component while the others stand still holds in every interleaving, because no action
of another can change its variables.

## Runs

| Run | Question | Result |
|---|---|---|
| `node_gpus` | Does the GPU ledger stay exact and exclusive when every runtime call may fail? | Yes, and the updates sent to the gateway agree with what is tracked. Two running containers share a GPU only after a stop whose stop and remove both failed. |
| `node_services` | Are results kept in order, is a close noticed, do failing deploy commands leave strays, does a crash between commands lose data? | Results stay in order, a close is noticed while no more frames are outstanding than the channel holds, no strays, nothing lost. |
| `node_stores` | Do acknowledged records stand, and do live and kernel state follow the stores, through failed saves, crashes inside a command and restarts? | While saves succeed and no file is torn, also across crashes. A crash inside the write of a file leaves one that is read as empty: the rejections or mounts in it are gone in that step, and in no other. Beside that, crons run jobs that exist, secrets read back or fail, revoked keys stay revoked, series and alerts are exact, addresses are held once, rules share connections evenly and let nothing through that no policy allows. |
| `control_plane` | Are mesh addresses distinct, do containers get what was asked, do both runtimes keep one contract, are answers, reports and placements right, does every wait end? | Yes, but for the wait of the `run` command: `submit_workload` has no timeout, and waits for as long as the gateway keeps the connection open and says nothing. And `count(0)` is left out here; see `gpu_count`. |
| `market` | Do escrowed funds leave once and can they always leave, do the books balance under races, is any choice beaten on every count, is what was written read back? | They leave once. In time they are out or `expire()`, which anyone may call, succeeds. The books balance when each task has its own wallet. A chosen bid is not beaten. An offer that a buyer takes is beaten at most in price, by one that also costs `max_price` or more: above it price does not count, and a tie may go to the dearer offer. Products and scores that wrap are met and left out by the formulas. |
| `p2p_node` | Do pool, tracker, caches and limiter keep their limits and their two copies of the same facts in step, and is a message handled once? | Yes; the AS limit when every peer has its own address, and a message once for as long as its id is remembered. A node forgets an id by eviction or age though copies may be on their way, and then handles and forwards one of them again. |
| `p2p_network` | Is an address held twice, is anything stale taken for new, do links, frames and answers tell the truth, does what is begun end? | No address is held twice when each job is created once. An announcement on a stable ring reaches every cache, and then traffic ends. |
| `gpu_count` | Does a container get the number of GPUs that was asked for? | Not when none was: `count(0)` is sent to Docker as a request for all. |
| `market_dispute_initiator` | Is the initiator of a dispute recorded? | No: a refused second `dispute()` overwrites it. |
| `molt_shared_wallet` | Are debits covered when two tasks pay from one wallet? | No: both pass the check. |
| `p2p_shared_asn` | Does the AS limit hold when peers share an address? | No: the removal of one counts down the other's AS. |
| `gossip_hops` | Does a message travel at most `max_ttl_hops`? | No: `ttl_hops` is never lowered. |

The last five state what a comment or a test of the repository says and are violated; `PROJECT.json`
quotes the lines.

**Bounds.** Each instance is the smallest in which the case of interest happens, where it can be with
one to spare.

- Node: three workloads on three GPUs, with requests that fit, do not fit and fail validation. A
  channel of two frames. One deployment of up to two replicas and three revisions, so that an update
  can be rolled back, with up to two faults. One or two names per store, two hosts, a crash and a
  failed save. Two whitelists that admit different images; policies of which one's name is a prefix
  of the other's, and a port that wraps at 16 bits. One workload address for two runs, and a VIP range that
  gives out two.
- Control: two processes in two regions of four addresses, and one process with more nodes than
  addresses. Machine sizes where 2^63 is 8, so that limits wrap in a u64 and in an i64. Three requests
  of the command line. Fallback chains over three kinds of GPU. Two checks of the monitor, and two
  calls of the plugin's tools, at a time.
- Market: two escrow accounts in which two parties have opposite roles, with a third caller. Escrows
  of 30, whose 5% fee is rounded, with a supply of two. An hour of three seconds, so that every
  remainder of the division occurs. Five bids and five offers that differ in price, time and reputation. Three
  nonces for a cache of two. Amounts of five bits with two binary decimals. A u64 of 32 and a u32 of 2 for
  the order book, so that the product of price and hours and the cast of the score both wrap.
- Network: caches with room for two or three entries, and one more id, peer or stamp than fits. A
  rate window of two messages and a ban that outlasts it. Three meshed nodes that send to one
  peer, with an announcement, a query, room for one seen id and one churn event (`MaxChurn`,
  `max_seen_cache`, `MaxQueue`); a ring of four, in which two paths lead to the node opposite. Two clocks one tick apart. A clock that passes the
  limit on silence and can be set to any time, with one message counted each way (`MaxMessages`). Two STUN
  servers, two networks. Two jobs with three addresses.

`CHECK_DEADLOCK FALSE` is set where the instance may stop: bounded ids or time run out, or all
traffic has ended. No run uses symmetry.

**Fairness.** All of it is weak fairness, and nothing is assumed of callers, of the gateway or of
nodes.

- `Marketplace`: time passes. No code in the repository calls `expire()`, so no call of it is
  assumed: `FundsComeOut` says that the funds are out or that the call would succeed.
- `GatewayClient`: the task reads what has arrived, and `select!`, which is not `biased`, picks among
  its ready branches at random.
- `CliSession`: the timer of a request runs. `NatTraversal`: so does that of a discovery's current
  server, unless an answer comes first.
- `ContainerRuntimes`: a spawned log stream is polled.
- `PeerConnections`: a waiting call that can end does; the runtime wakes its task.
- `Gossip` on the stable ring: some message in flight arrives. That part also has no loss, rate
  limiting, expiry or churn, which is an assumption about the network and not a guarantee of the code.

`ClientProgresses` is stated for at most `Capacity` frames outstanding (`Burst`). Nothing in the code
enforces that. With one frame more, the task waits for room in a channel that only it empties and
never reads again. The channel holds 32 frames and a heartbeat falls due every 30 seconds, so more
than 32 invokes waiting at once, or a command of more than 16 minutes behind which ticks pile up, can
lead there, depending on the branches `select!` picks.

## Proofs

Each holds for every value of the constants under the assumption its component's module names. These
give the constants their types; besides, a region's offsets fit its octets, a heartbeat is no invoke
and no node is linked to itself, as in the code. The sets of nodes, peers,
messages, jobs, GPUs and threads, capacities, fanouts, limits and the bounds on ids may be of any size.

| Theorem | Says | Inductive invariant: what it adds and why |
|---|---|---|
| `TypeCorrect`, `GpuSafety`, `RunningContainersIsolated` (`NodeWorkloadsProofs`) | The ledger holds exactly the GPUs of tracked workloads and no two share one; running containers share a GPU only if one was abandoned by a stop that failed twice. | `ContainersNamed` and `RunningOwned`: a tracked workload names a container of its own, and a running container that was not abandoned belongs to a tracked workload with the same GPUs. Without them a new container's isolation does not follow from the ledger. |
| `LedgerFits` (`NodeWorkloadsProofs`) | `LedgerFitsWorkloads`: the ledger marks exactly the GPUs of tracked workloads, each of them holds as many as it asked for, and the last update sent of a workload agrees with what `get_workload_status` answers. | The ledger lies within the node's GPUs, so the count that was checked as available is the number of GPUs that first fit can take. |
| `ClientKeepsOrder` (`NodeServicesProofs`) | `ResultsInOrder`: for every channel capacity, no result is lost, doubled or overtaken while a connection lasts. | `flow` is what was written, what is queued and what waits for room, as one sequence; a step appends to it or moves the border between its parts. `OnlyInLoop`: outside of the event loop all of it is empty, so a new connection starts with nothing. |
| `DeploymentsKeepReplicas`, `DeploymentRecordsTrue` (`NodeServicesProofs`) | `OldReplicasKeepRunning`: the replicas of a record run until the command that replaces or deletes them stops them. `RecordsTrue`: the records are true of the containers while the worst fault is a replica that does not start, of their history whatever happens, and of the file while it can be written. | `StoresHold`: a command knows the record it began with. `IdsHold`, which needs that: no container is listed twice or is both listed and newly started. `ExactlyHeld`, which needs both: what runs is what is kept, what is still to be removed and what the command has started. |
| `CronRuns` (`StoreProofs`) | `CronRunsAreJobs`: a last run on disk is that of a job that reached the disk, beside any exec processes. | `BatchInv`: also what the daemon has in memory tells the truth, because a later command writes it out. |
| `CredentialsKept` (`StoreProofs`) | `CredentialsHold`, if the daemon has the stores to itself: secrets read back or fail, revoked keys stay closed, the log claims nothing that is not on disk. | `CredentialHold`: memory and disk agree, a key is stored under its hash, and a logged revocation was acknowledged or is that of the crash. Beside an exec process the daemon's memory is older than the files, and its next write takes back what was acknowledged. |
| `PoliciesStand` (`StoreProofs`) | `RejectionsStand`: no added policy makes a rejected workload pass, across restarts, beside exec processes, and across crashes of a daemon that has the stores to itself, unless a save fails or the crash tears the policy file. | `TenancyInv`: the daemon knows no policy that is not on disk, so a restart loses none. A crash leaves the file as before, as after or torn; only the last loses a policy, and the statement names that step (`torn`). |
| `ImmutableConfigs`, `MountedVolumes` (`StoreProofs`) | `ImmutableStands` and `MountsStand`, if the daemon has the stores to itself, across crashes, until a save fails; a crash that tears the file of the volumes loses the mounts in that step. | Memory and disk agree; a volume is bound exactly when it names a container; a backup holds no store file at its top, so restoring one brings no old volume back. |
| `WorkloadRecords` (`WorkloadProofs`) | `WorkloadRecordsTrue`: with either container runtime, any subnet, any exec processes and any failures, what is recorded as stopped does not run, every address given out so far is held by one workload or free once, and no two running containers have the same one. That Docker refuses an address in use is taken from Docker. | `Told`, of memory and of disk: a record that says stopped names a container that has ended, and no step of the model starts one again. It must hold of both, because a restart reads the file and an exec process writes it. `NetHolds`: the addresses below the counter are held or free, once each, and only workloads that were run hold any. |
| `StartupRecords` (`WorkloadProofs`) | `ReconciledTruly`: a node that starts records as running only workloads whose container runs. | The same invariant, for the shape of the file. |
| `MeshAddresses` (`ControlProofs`) | A mesh gives no address and no workload subnet to two nodes, and keeps addresses in their region's pool. | `Given`: whatever was given lies below its counter. `NodeIp` shows that the offset can be read back from the address, so offsets apart are addresses apart. |
| `MeshPeers` (`ControlProofs`) | A manager has exactly the peers that it was last told of. | `ManagersApart`: a node id names a manager of one process only, so that a restart takes away nobody else's. |
| `CliAnswersMatch` (`ControlProofs`) | `AnswersMatch`: a command that is told of success had its own request performed. Assumed is that no connection is used for a second command, as in every command of the tool; requests carry no number, so on a kept connection a late answer is taken for the next one's. | `OneAtATime`: on the open connection there is one request to serve, or one answer on its way, or neither. `Earlier`: what is left of a closed connection has an older number. |
| `AccountKeepsPromise`, `OverdueExpires` (`MarketProofs`) | `EscrowAccount` implements `EscrowPromise`; past its timeout an account is moved by `expire()` alone. | Types. `StepTransition`: each step that changes the states is a legal transition of one account. |
| `BookFair` (`MarketProofs`) | `SettledInFull` and `RankingMonotone`: a job found through the book is paid for in full from its escrow, and an offer that is no worse ranks no lower. For every width of the integers: the statements themselves leave out a match whose product of price and hours wraps (`product_fits`; in a release build it matches an offer it cannot pay) and an offer whose score does not fit its cast (`score_fits`). | Types. The argument is arithmetic: the ceiling of settlement is at most the product that the filter compared with the escrow. |
| `AttestationsStand` (`MarketProofs`) | `AttestationHolds`: a chain passes its own check however entries are added, a challenge is accepted again only after as many others as the cache holds, and a proof fits its own run only. Assumed is room for one nonce; `NonceCache::insert` would loop for ever on a cache of size 0. | `CacheInv`: the eviction queue is the tail of what was accepted, all of it until the cache is full, so a nonce that is not in it was accepted that long ago. `RunInv`: the hash of a checkpoint stands for the data up to it. |
| `SignaturesTold`, `TokenPaysOnce` (`MoltToken`) | The token crate's `Escrow` implements `EscrowPromise`, and its state tells which payment was signed. | `Activated`: only an activated escrow is ever signed for, and it is never `Creating` again. |
| `LedgerPaysOnce`, `LedgerStepsLegal` (`MoltToken`) | The shared client implements `EscrowPromise`, and the marketplace sees legal transitions only, for any number of tasks. | Types. `EscrowStep`: what a call may make of one escrow. |
| `DebitsCovered` (`MoltToken`) | `CheckStillHolds` and `DebitsAreCovered`, if no two tasks share a wallet (the run `molt_shared_wallet` shows that they may not). | `CheckStillHolds` is inductive with the types: other tasks' calls only add to a wallet. |
| `JobAddresses` (`PeerProofs`) | No two jobs use one address, and a stored tunnel has the address on record, wherever calls interleave or are dropped, if each job is created once. | `Taken`, `OneAfterTheOther`, `Apart`: also the address of a creation under way is below the counter, on record and nobody else's, and it is gone when the tunnel is stored. |
| `EndpointFresh` (`PeerProofs`) | A discovery caches only the endpoint of a network that the node has been in since the discovery began, although the node may move at any time and answers may be late. | `SentHere`: what is under way to the running discovery's socket names a network visited since it began. `Addressed`: nothing is under way to a socket not yet bound. |
| `PoolKeepsLimits` (`PeerProofs`) | `PoolLimitsHold`: no subnet has more connections than its limit, also when peers share addresses. If every peer has its own address, the tracker's counts are the pool's, so the AS limit holds too. | `Counted`: the tracker counts at least the pool's connections of a subnet; it may count more, which loses capacity and is safe. With own addresses, `OnePerPeer` and `TrackedIsPool`: a peer has one connection, and what is tracked under its address is that one, so a removal counts down what it counted up. |
| `LinksTrue` (`PeerProofs`) | `LinksTellTruth`: a link loses, doubles and reorders nothing between ends that live, for every room in its queues, and a connection that `unhealthy_connections` leaves alone was in touch within the limit on silence, but for what the clock was set back since then, and of its pings more were answered than lost. A clock set back by an hour does hide an hour of silence; the statement says how much, for every limit and every setting of the clock. | `NoneInvented`: an end counts no more than the other sent, so a queue is the numbers between the two counts and stays so when either grows. `HealthInv`: the time of the last contact and the silence since add up to no more than the clock shows and was set back, and the counts are those of the outcomes. |
| `MessagesHandledOnce` (`PeerProofs`) | `HandledOnce`: between one loss of its id and the next a node takes a message for new at most once, and no query comes back to its origin whatever was forgotten, for every network, fanout, size of the seen cache, loss, refusal, eviction, cleanup and change of peers. | `Remembered`: a message taken for new since its id was last forgotten is in the seen map; marking, eviction and cleanup keep that although the eviction queue may hold an id twice. `NotItsOwnPeer`: no node is its own peer. A query does not mark its own id as seen, so the second half rests on this and on the exclusion of the origin when a query is passed on. |
| `AllocationsWhole`, `FakeKeepsContract` (`ControlProofs`) | A container has all the GPUs it was granted; the runtime implements `ContainerContract`. | `IdsApart`: an id waits in one thread, and has named no container until it is inserted. |

The proofs in `StoreProofs` share one argument. `CommitOne` and `CommitTwo` say what a command that
writes one store or two may leave when it ends, when a snapshot fails and when the process dies before,
between or in the writes; the rest of each proof is about the maps that are written. As in the model, a
command dies half-way once; restarts between commands are not bounded.

Everything else is model-checked only. Liveness and ENABLED are out of the prover's reach; so are
induction over data and recursive definitions, so what the folds over sequences compute is checked on
the instances: the sums of `BalancesMatchRecords`, the filtered queues of `GossipLimits`. That
`ContainerRuntimes` implements its abstraction is checked by TLC.

## Disagreements without a run

Met while modelling; the models show the behaviour. Where a definition is named, it states what was
expected, TLC refutes it, and its comment says why.

Node and stores
- `deploy.update` and `deploy.rollback` start new replicas under the names of the old ones before
  they stop those, so with running replicas they fail on the first name. The old ones stay up.
- `deploy.pause` reports "updates blocked until resumed"; `rollback` works on a paused deployment and
  unpauses it, and there is no resume command.
- The GPU requirement of an advanced spec is validated and then ignored when GPUs are allocated.
  `node_satisfies_requirements` does not look at a plain `gpu_count` (`EffectiveCountHonoured`), and
  `validate()` looks at the primary requirement only.
- `idempotency_key` and `timeout_ms` of an invoke are never read: a repeated invoke is executed again,
  and a result still queued at a disconnect is lost.
- The node builds Starting and Stopping updates and drops them; what it does send is checked by
  `UpdatesTrue`. A start whose container is created and cannot be started leaves the container behind.
- A `clawnode exec` process writes files the daemon has in memory; the daemon's next save undoes it.
  `SecretsReadBack` and `RevokedStaysRevoked` therefore hold for the daemon alone.
- A backup nests the state directory and a restore copies its top level only (`RestoreBringsBack`).
  `autoscale.adjust` does not compare the bounds it sets (`BoundsOrdered`). The search
  for an event's place may put it before others of its instant, so a query does not always answer with
  the newest first (`MostRecentFirst`).
- Without the Docker SDK a stopped workload keeps its address (`StopReleasesAddress`), and a stop by
  name releases it in neither build; a restart forgets which addresses are in use. `node.drain` ignores `force`.
- Nothing calls `refresh_all_endpoints`, `update_endpoints`, `refresh_all` or `build_route_table`, so
  endpoints, policies and routes are not refreshed (`RulesFollowEndpoints`). Removing a policy removes
  the rules of every policy whose name it is a prefix of (`RemovesOwnRules`). Another policy's ingress
  rule may let through what an empty egress list is to deny (`EgressDenied`). After a restart the VIP counter begins at 1 again while DNAT rules remain.
- Two processes of one mesh count from the same start (`NodesDistinct`), and a listing does
  not tell a manager of the new endpoint of a peer it knows (`PeersAreCurrent`).

Runtimes, command line, plugin
- Docker flags a paused container as running too, and `get` reports it as running (`PausedIsTold`). A
  log stream looks at the state the node has tracked, which may say that a running container is not
  (`StreamsFollow`). Health checks and stop timeouts are built and never
  sent. `logs` of a container that is not there answers with no lines and no error.
- `run` of the command line turns `gpu_indices` into a count. Most of its commands are placeholders
  that report success (`SuccessMeansDone`). An answer that comes after its timeout would be taken for
  the next request's on a reused connection (`AnswersMatch` with `Reuse`).
- `listNodes` of the plugin returns an empty list when it fails, and the monitor reports every known
  healthy node as disconnected; `stop()` does not stop a check under way, and checks overlap.
- `claw_deploy` checks and then acts, so two calls may take the same GPUs; a deployment that times out
  is reported as failed though the node may have run it; a preferred node loses to one with 10000 MiB
  more. `clawnode` reports no `gpu_available`, so a deployment that needs a GPU finds no node, and its
  `gpu.list` answers an object where `gpu_inventory` expects an array.
- `latest()` of the event log is the event added last, whatever its time (`LatestIsLatest`, refuted
  with two events); a gauge below zero is read as unsigned (`NonNegative`).

Market
- `fund()` succeeds after the timeout. Fees are deducted from payouts and credited to nobody.
- `mark_expired` turns a released token escrow into an expired one, which the marketplace reads as
  refunded (`TerminalIsFinal`).
- Jobs submitted while few are active are all activated (`MaxActiveHolds`); a buyer
  may take an offer above its price that is dearer than another and no better (`BestOfferTaken`); after a
  budget is lowered below what was spent, the saved file is refused and the hour starts afresh
  (`BudgetSurvivesRestart`). Whole units are converted unchecked and may wrap (`AmountIsExact`); old
  transactions weigh as much as new ones (`RecentWeighsMore`).
- A nonce cache of size 0 never ends its eviction loop.

Network
- The tracker loses capacity for peers that share an address. Repeated responses put an id into
  `seen_order` twice, and the seen cache then exceeds its limit. The limiter's cleanup keeps every peer
  that ever violated the limit.
- An announcement made on a clock that is ahead counts as expired; one without hops left is still
  cached. A query does not mark its own id as seen. `query_cache` with `max_results` 0 returns one.
- `store_capacity` replaces a newer announcement by an older one that comes later (`NewestKept`). A
  late answer of a server that was passed over is noted as the next one's (`NotesTheResponder`).
  `create_job_tunnel` and `get_tunnel` return a tunnel that is still being established in place of the
  active one (`HandleTellsState`).

## Not modelled

- Argument parsing and output of the command line, error types, process configuration, serialisation
  of peer messages: declarations, wording and layout, with no state.
- GPU kernels and device probing: floating point, and the parsing of vendor tools' output.
- Identities, keys and wallets: cryptography on values that do not change once made. Where a component
  uses a hash, a signature or a cipher, the model keeps what it guarantees.
- `molt.*` commands of the node: fixed answers.
- Parts of modelled components: frame contents and device signature of the gateway client, message
  types that are only carried, gossip heartbeat and sync messages (they change no state), transaction
  status marks (a stored transaction is always finalized), the bytes the ingress proxy forwards,
  `setup_hole_punch` (it sends packets and keeps nothing).
