--------------------------- MODULE ProtoWorkloads ---------------------------
(***************************************************************************)
(* claw-proto's workloads, in two parts that share no variable but the     *)
(* clock: what a workload asks of a node, and the record of how it went.   *)
(***************************************************************************)
(***************************************************************************)
(* What a workload asks of a node and whether a node meets it: claw-proto's *)
(* WorkloadSpec with its SchedulingRequirements (gates, a GPU requirement   *)
(* with its chain of fallbacks, node conditions, a node selector, a         *)
(* parallel configuration), its validation, and the matching of a           *)
(* requirement against the capabilities a node has reported.                *)
(*                                                                          *)
(* Both sides are built a call at a time: the node adds GPUs, labels and    *)
(* conditions and updates the status of a condition, the workload is        *)
(* extended by its builder methods.  A fallback chain is the sequence       *)
(* fallback_chain yields; a CEL selector is the sequence of its parts       *)
(* between the &&s; a name contains the patterns in its set; an image or a  *)
(* key is a sequence of tokens.  An Option is a set of at most one element. *)
(***************************************************************************)
EXTENDS Naturals, Sequences, FiniteSets, SequencesExt

CONSTANTS
    Gpus,           \* what a GPU may be: [name : set of patterns, memory_mib : Nat]
    MaxGpus,        \* bound on the GPUs of the node
    Chains,         \* the GPU requirements, each with its fallbacks
    ConditionTypes, \* the types of node conditions
    MaxConditions,  \* bound on the conditions reported, and on those required
    Labels,         \* label keys; a label's value is 0 or 1
    Gates,          \* scheduling gates
    Images,         \* image references: sequences of tokens
    EnvKeys,        \* environment keys: sequences of kinds of characters
    Counts,         \* GPU counts, completions and parallelism tried
    MAX_GPU_COUNT,  \* the largest GPU count a spec may ask for
    MaxTime         \* bound on the clock

VARIABLES capabilities, spec, now

scheduling_vars == <<capabilities, spec, now>>

Statuses == {"true", "false", "unknown"}

-----------------------------------------------------------------------------
(* Matching a GPU requirement. *)

\* A part of a selector: device.memory_mib or device.index compared with the
\* digits that end the part, device.name.contains with the quoted pattern,
\* and anything else, which is taken as true.
compare(op, x, y) ==
    \/ op = ">=" /\ x >= y
    \/ op = "<=" /\ x <= y
    \/ op = ">" /\ x > y
    \/ op = "<" /\ x < y
    \/ op \in {"==", "="} /\ x = y

evaluate_cel_part(part, gpu, index) ==
    CASE part.on = "memory_mib" -> \E v \in part.value : compare(part.op, gpu.memory_mib, v)
      [] part.on = "name"       -> \E p \in part.pattern : p \in gpu.name
      [] part.on = "index"      -> \E v \in part.value : compare(part.op, index, v)
      [] OTHER                  -> TRUE

evaluate_cel_selector(selector, gpu, index) ==
    \A i \in DOMAIN selector : evaluate_cel_part(selector[i], gpu, index)

gpu_matches_requirement(gpu, index, req) ==
    /\ \A m \in req.min_memory_mib : gpu.memory_mib >= m
    /\ \A p \in req.model_pattern : p \in gpu.name
    /\ \A s \in req.selector : evaluate_cel_selector(s, gpu, index)

\* The indices of the first count GPUs that match; Indices counts from 0.
Indices(gpus) == [i \in 1 .. Len(gpus) |-> i - 1]

matching_gpus(gpus, req) ==
    SelectSeq(Indices(gpus), LAMBDA i : gpu_matches_requirement(gpus[i + 1], i, req))

\* Variant: the first count GPUs are taken before the criteria are applied.
try_match_taken_first(gpus, req) ==
    LET taken == SubSeq(gpus, 1, req.count)
        matching == matching_gpus(taken, req)
    IN  IF Len(gpus) >= req.count /\ matching # <<>> THEN {matching} ELSE {}

try_match_single(gpus, req) ==
    LET matching == matching_gpus(gpus, req)
    IN  IF Len(gpus) >= req.count /\ Len(matching) >= req.count
        THEN {SubSeq(matching, 1, req.count)}
        ELSE {}

NumberOf(gpus, Test(_)) == Cardinality({i \in DOMAIN gpus : Test(gpus[i])})

build_mismatch_reason(gpus, req) ==
    LET enough(g) == \A m \in req.min_memory_mib : g.memory_mib >= m
        named(g) == \A p \in req.model_pattern : p \in g.name
    IN  CASE Len(gpus) < req.count              -> "count"
          [] NumberOf(gpus, enough) < req.count -> "memory"
          [] NumberOf(gpus, named) < req.count  -> "model"
          [] OTHER                              -> "not satisfied"

\* The first requirement of the chain that the node's GPUs can meet.
match_requirement(chain, gpus) ==
    LET k == SelectInSeq(chain, LAMBDA req : try_match_single(gpus, req) # {})
    IN  IF k = 0
        THEN [matched_gpus |-> {}, priority |-> {},
              reason |-> {build_mismatch_reason(gpus, chain[1])}]
        ELSE [matched_gpus |-> try_match_single(gpus, chain[k]),
              priority |-> {chain[k].priority}, reason |-> {}]

is_match(result) == result.matched_gpus # {}

-----------------------------------------------------------------------------
(* Conditions, labels, and a node against all that a workload requires. *)

\* Variant: the condition of the type that was reported last.
get_condition_last(conditions, type) ==
    LET k == SelectLastInSeq(conditions, LAMBDA c : c.condition_type = type)
    IN  IF k = 0 THEN {} ELSE {conditions[k]}

\* The condition of the type that was reported first.
get_condition(conditions, type) ==
    LET k == SelectInSeq(conditions, LAMBDA c : c.condition_type = type)
    IN  IF k = 0 THEN {} ELSE {conditions[k]}

is_satisfied_by(req, c) ==
    c.condition_type = req.condition_type /\ c.status = req.required_status

is_condition_satisfied(conditions, req) ==
    \E c \in get_condition(conditions, req.condition_type) : is_satisfied_by(req, c)

matches_selector(labels, selector) ==
    \A k \in DOMAIN selector : k \in DOMAIN labels /\ labels[k] = selector[k]

node_satisfies_requirements(caps, reqs) ==
    /\ \A chain \in reqs.gpu_requirement : is_match(match_requirement(chain, caps.gpus))
    /\ matches_selector(caps.labels, reqs.node_selector)
    /\ \A i \in DOMAIN reqs.required_conditions :
           is_condition_satisfied(caps.conditions, reqs.required_conditions[i])

is_gated(s) == s.scheduling_gates # <<>>
is_parallel(s) == \E p \in s.parallel : p.completions > 1
is_indexed(s) == \E p \in s.parallel : p.completion_mode = "indexed"

effective_gpu_count(s) ==
    IF s.gpu_requirement = {} THEN s.gpu_count
    ELSE (CHOOSE chain \in s.gpu_requirement : TRUE)[1].count

-----------------------------------------------------------------------------
(* Validation. *)

\* The tokens of an image: names, ":", "/", "@", " " and the digest
\* algorithms "sha256:" and "sha512:".
validate_image(image) ==
    LET slash == SelectLastInSeq(image, LAMBDA t : t = "/")
        name_tag == SubSeq(image, slash + 1, Len(image))
        at == SelectInSeq(name_tag, LAMBDA t : t = "@")
    IN  /\ image # <<>>
        /\ " " \notin Range(image)
        /\ name_tag # <<>>
        /\ image[1] \notin {":", "@"}
        /\ image[Len(image)] \notin {":", "/", "sha256:", "sha512:"}
        /\ at # 0 => at < Len(name_tag) /\ name_tag[at + 1] \in {"sha256:", "sha512:"}

\* Memory and cores are beyond their limits or not; the GPUs are counted.
validate_resources(beyond_limits, gpu_count) ==
    ~beyond_limits /\ gpu_count <= MAX_GPU_COUNT

validate_env_key(key) ==
    /\ key # <<>>
    /\ key[1] \in {"letter", "_"}
    /\ Range(key) \subseteq {"letter", "digit", "_"}

\* The fields in error, in the order they are looked at; into_result answers
\* the first.
errors(s) ==
    LET err(ok, field) == IF ok THEN <<>> ELSE <<field>>
    IN  err(validate_image(s.image), "image")
        \o err(validate_resources(s.beyond_limits, effective_gpu_count(s)), "resources")
        \o err(\A k \in s.env : validate_env_key(k), "env")
        \o err(\A p \in s.parallel : p.parallelism # 0, "parallelism")
        \o err(\A p \in s.parallel : p.completions # 0, "completions")

validate(s) == IF errors(s) = <<>> THEN {} ELSE {Head(errors(s))}

-----------------------------------------------------------------------------
PlacementInit ==
             /\ capabilities = [gpus |-> <<>>, conditions |-> <<>>, labels |-> <<>>]
             /\ \E image \in Images :
                    spec = [image |-> image, env |-> {}, gpu_count |-> 0, beyond_limits |-> FALSE,
                            scheduling_gates |-> <<>>, gpu_requirement |-> {},
                            required_conditions |-> <<>>, parallel |-> {}, node_selector |-> <<>>]
             /\ now = 0

\* One map with the value of one key set.
With(f, k, v) == [x \in DOMAIN f \cup {k} |-> IF x = k THEN v ELSE f[x]]

with_gpu(g) ==
    /\ Len(capabilities.gpus) < MaxGpus
    /\ capabilities' = [capabilities EXCEPT !.gpus = Append(@, g)]
    /\ UNCHANGED <<spec, now>>

with_label(k, v) ==
    /\ capabilities' = [capabilities EXCEPT !.labels = With(@, k, v)]
    /\ UNCHANGED <<spec, now>>

\* Reports a condition; one of the same type stays where it is.
with_condition(type, status) ==
    /\ Len(capabilities.conditions) < MaxConditions
    /\ capabilities' = [capabilities EXCEPT !.conditions =
           Append(@, [condition_type |-> type, status |-> status,
                      last_transition_time |-> now, last_probe_time |-> now])]
    /\ UNCHANGED <<spec, now>>

update_status(i, status) ==
    /\ i \in DOMAIN capabilities.conditions
    /\ LET c == capabilities.conditions[i]
       IN  capabilities' = [capabilities EXCEPT !.conditions[i] =
               [c EXCEPT !.status = status, !.last_probe_time = now,
                         !.last_transition_time = IF c.status = status THEN @ ELSE now]]
    /\ UNCHANGED <<spec, now>>

with_gpu_count(n) ==
    /\ spec' = [spec EXCEPT !.gpu_count = n]
    /\ UNCHANGED <<capabilities, now>>

with_memory_and_cores(beyond_limits) ==
    /\ spec' = [spec EXCEPT !.beyond_limits = beyond_limits]
    /\ UNCHANGED <<capabilities, now>>

with_env(k) ==
    /\ spec' = [spec EXCEPT !.env = @ \cup {k}]
    /\ UNCHANGED <<capabilities, now>>

with_scheduling_gate(g) ==
    /\ g \notin Range(spec.scheduling_gates)
    /\ spec' = [spec EXCEPT !.scheduling_gates = Append(@, g)]
    /\ UNCHANGED <<capabilities, now>>

with_gpu_requirement(chain) ==
    /\ spec' = [spec EXCEPT !.gpu_requirement = {chain}]
    /\ UNCHANGED <<capabilities, now>>

with_required_condition(type, status) ==
    /\ Len(spec.required_conditions) < MaxConditions
    /\ spec' = [spec EXCEPT !.required_conditions =
           Append(@, [condition_type |-> type, required_status |-> status])]
    /\ UNCHANGED <<capabilities, now>>

with_parallel(completions, parallelism) ==
    /\ spec' = [spec EXCEPT !.parallel =
           {[completions |-> completions, parallelism |-> parallelism,
             completion_mode |-> "non_indexed"]}]
    /\ UNCHANGED <<capabilities, now>>

with_indexed_workers(n) ==
    /\ spec' = [spec EXCEPT !.parallel =
           {[completions |-> n, parallelism |-> n, completion_mode |-> "indexed"]}]
    /\ UNCHANGED <<capabilities, now>>

with_node_selector(k, v) ==
    /\ spec' = [spec EXCEPT !.node_selector = With(@, k, v)]
    /\ UNCHANGED <<capabilities, now>>

Tick ==
    /\ now < MaxTime
    /\ now' = now + 1
    /\ UNCHANGED <<capabilities, spec>>

PlacementNext ==
             \/ \E g \in Gpus : with_gpu(g)
             \/ \E k \in Labels, v \in {0, 1} : with_label(k, v) \/ with_node_selector(k, v)
             \/ \E t \in ConditionTypes, s \in Statuses : with_condition(t, s)
             \/ \E i \in 1 .. MaxConditions, s \in Statuses : update_status(i, s)
             \/ \E t \in ConditionTypes, s \in {"true", "false"} : with_required_condition(t, s)
             \/ \E n \in Counts : with_gpu_count(n) \/ with_indexed_workers(n)
             \/ \E n, m \in Counts : with_parallel(n, m)
             \/ \E b \in BOOLEAN : with_memory_and_cores(b)
             \/ \E k \in EnvKeys : with_env(k)
             \/ \E g \in Gates : with_scheduling_gate(g)
             \/ \E chain \in Chains : with_gpu_requirement(chain)
             \/ Tick

PlacementSpec == PlacementInit /\ [][PlacementNext]_scheduling_vars

-----------------------------------------------------------------------------
PlacementTypeOK ==
             /\ capabilities.gpus \in Seq(Gpus)
             /\ \A i \in DOMAIN capabilities.conditions :
                    LET c == capabilities.conditions[i]
                    IN  /\ c.status \in Statuses
                        /\ c.last_transition_time <= c.last_probe_time
                        /\ c.last_probe_time <= now
             /\ spec.image \in Images /\ spec.env \subseteq EnvKeys
             /\ \A f \in validate(spec) : f \in {"image", "resources", "env", "parallelism", "completions"}

\* A GPU will do for a requirement, and as many GPUs of a node as the
\* requirement asks for, whichever they are, will do.
WillDo(gpus, i, req) ==
    /\ \A m \in req.min_memory_mib : gpus[i].memory_mib >= m
    /\ req.model_pattern \subseteq gpus[i].name
    /\ \A s \in req.selector : evaluate_cel_selector(s, gpus[i], i - 1)

Meets(gpus, req) ==
    \E S \in SUBSET (DOMAIN gpus) :
        Cardinality(S) = req.count /\ \A i \in S : WillDo(gpus, i, req)

(***************************************************************************)
(* The matching of a GPU requirement (match_requirement) finds what there   *)
(* is to find: it fails exactly when the node can meet no requirement of    *)
(* the chain.  When it succeeds the priority is that of the most preferred  *)
(* requirement the node can meet, and the GPUs named are distinct, as many  *)
(* as that requirement asks for, and will each do for it.                   *)
(***************************************************************************)
FindsTheFirstFit ==
    \A chain \in spec.gpu_requirement :
        LET r == match_requirement(chain, capabilities.gpus)
            fits == {k \in DOMAIN chain : Meets(capabilities.gpus, chain[k])}
        IN  /\ is_match(r) <=> fits # {}
            /\ \A m \in r.matched_gpus : \E k \in fits :
                   /\ \A j \in fits : k <= j
                   /\ r.priority = {chain[k].priority}
                   /\ Len(m) = chain[k].count /\ Cardinality(Range(m)) = chain[k].count
                   /\ \A i \in Range(m) : WillDo(capabilities.gpus, i + 1, chain[k])

(***************************************************************************)
(* A node that can take a workload can still take it after it has reported  *)
(* one more GPU (with_gpu) or one more condition (with_condition), even one *)
(* of a type it had reported before, and with no lower preference: of the   *)
(* requirements in the chain the one met does not move towards the end.     *)
(***************************************************************************)
MoreIsNoWorse ==
    (/\ Len(capabilities'.gpus) + Len(capabilities'.conditions)
            > Len(capabilities.gpus) + Len(capabilities.conditions)
     /\ UNCHANGED spec) =>
       /\ node_satisfies_requirements(capabilities, spec)
              => node_satisfies_requirements(capabilities', spec)
       /\ \A chain \in spec.gpu_requirement :
              LET first(c) == SelectInSeq(chain, LAMBDA q : try_match_single(c.gpus, q) # {})
              IN  first(capabilities) # 0
                      => first(capabilities') \in 1 .. first(capabilities)

(***************************************************************************)
(* "Number of GPUs required (simple mode ...)" (workload.rs): a node that   *)
(* satisfies the requirements of a workload has as many GPUs as the         *)
(* workload's effective count.                                              *)
(***************************************************************************)
EffectiveCountHonoured ==
    node_satisfies_requirements(capabilities, spec)
        => Len(capabilities.gpus) >= effective_gpu_count(spec)

-----------------------------------------------------------------------------
(***************************************************************************)
(* The record claw-proto keeps of one workload: its status, moved by        *)
(* transition_to along the legal transitions, its log of lifecycle events,  *)
(* and the messages a node sends about it.  The status stamps when the      *)
(* workload first ran and when it ended; the log is appended to with the    *)
(* time of the call (created, started, ...) or with a time the caller       *)
(* gives (at).                                                              *)
(***************************************************************************)
CONSTANTS
    MAX_WORKLOAD_LOG_LINES, \* the lines one message may carry
    MaxLines,               \* bound on the lines offered to a message
    MaxEvents,              \* bound on the events logged
    MaxStamp                \* bound on the clock of the record

VARIABLES
    record,  \* the WorkloadStatus, [state, started_at, finished_at, exit_code]
    log,     \* the events, [kind, timestamp]
    message, \* the last message sent about the workload
    seen     \* history: the states the workload was in, each with its time

record_vars == <<record, log, message, seen, now>>

States == {"pending", "starting", "running", "stopping", "stopped", "completed", "failed"}
Kinds == {"created", "started", "running", "completed", "failed", "stopped"}

is_terminal(s) == s \in {"completed", "failed", "stopped"}

is_valid_transition(from, to) ==
    \/ from = "pending" /\ to \in {"starting", "failed", "stopped", "pending"}
    \/ from = "starting" /\ to \in {"running", "failed", "stopped"}
    \/ from = "running" /\ to \in {"stopping", "completed", "failed", "running"}
    \/ from = "stopping" /\ to \in {"stopped", "failed"}

\* Variant: every step to running stamps the start.
stamped_each_time(st, to, t) ==
    [st EXCEPT !.state = to,
               !.started_at = IF to = "running" THEN {t} ELSE @,
               !.finished_at = IF is_terminal(to) THEN {t} ELSE @]

\* The start is stamped once, the end with every step to a terminal state.
stamped(st, to, t) ==
    [st EXCEPT !.state = to,
               !.started_at = IF to = "running" /\ @ = {} THEN {t} ELSE @,
               !.finished_at = IF is_terminal(to) THEN {t} ELSE @]

NoMessage == [type |-> "none", state |-> "none", lines |-> 0]

pending == [state |-> "pending", started_at |-> {}, finished_at |-> {}, exit_code |-> {}]

RecordInit ==
          /\ record = pending
          /\ log = <<>> /\ message = NoMessage /\ now = 0
          /\ seen = {[state |-> "pending", at |-> 0]}

transition_to(to) ==
    /\ is_valid_transition(record.state, to)
    /\ record' = stamped(record, to, now)
    /\ seen' = seen \cup {[state |-> to, at |-> now]}
    /\ UNCHANGED <<log, message, now>>

set_exit_code(code) ==
    /\ record' = [record EXCEPT !.exit_code = {code}]
    /\ UNCHANGED <<log, message, seen, now>>

\* An event of the time of the call, or of a time the caller gives.
push(kind, t) ==
    /\ Len(log) < MaxEvents
    /\ log' = Append(log, [kind |-> kind, timestamp |-> t])
    /\ UNCHANGED <<record, message, seen, now>>

workload_update ==
    /\ message' = [NoMessage EXCEPT !.type = "update", !.state = record.state]
    /\ UNCHANGED <<record, log, seen, now>>

\* Variant: the lines are sent as they are.
workload_logs_whole(n) ==
    /\ message' = [NoMessage EXCEPT !.type = "logs", !.lines = n]
    /\ UNCHANGED <<record, log, seen, now>>

\* Lines beyond the limit are dropped before the message is made.
workload_logs(n) ==
    /\ message' = [NoMessage EXCEPT !.type = "logs",
           !.lines = IF n > MAX_WORKLOAD_LOG_LINES THEN MAX_WORKLOAD_LOG_LINES ELSE n]
    /\ UNCHANGED <<record, log, seen, now>>

validate_message(m) == m.type = "logs" => m.lines <= MAX_WORKLOAD_LOG_LINES

RecordTick ==
          /\ now < MaxStamp
          /\ now' = now + 1
          /\ UNCHANGED <<record, log, message, seen>>

RecordNext ==
          \/ \E to \in States : transition_to(to)
          \/ \E code \in {0, 1} : set_exit_code(code)
          \/ \E kind \in Kinds, t \in 0 .. MaxStamp : push(kind, t)
          \/ workload_update
          \/ \E n \in 0 .. MaxLines : workload_logs(n)
          \/ RecordTick

RecordSpec == RecordInit /\ [][RecordNext]_record_vars

latest == IF log = <<>> THEN {} ELSE {Last(log)}

events_between(start, end) ==
    SelectSeq(log, LAMBDA e : start <= e.timestamp /\ e.timestamp <= end)

duration(st) == {f - s : s \in st.started_at, f \in st.finished_at}

-----------------------------------------------------------------------------
RecordTypeOK ==
          /\ record.state \in States /\ record.exit_code \subseteq {0, 1}
          /\ \A i \in DOMAIN log : log[i].kind \in Kinds
          /\ validate_message(message)

(***************************************************************************)
(* The status tells how the workload really went (transition_to): the start *)
(* it holds is the first time the workload was running, however often it    *)
(* was reported running again, the end is there exactly when the workload   *)
(* is over and is the time of the one state that ended it, a workload that  *)
(* ended completed ran, and the duration, where there is one, is the time   *)
(* between the two.                                                         *)
(***************************************************************************)
StatusTellsTheRun ==
    LET ran == {e.at : e \in {x \in seen : x.state = "running"}}
        over == {e \in seen : is_terminal(e.state)}
    IN  /\ record.started_at = {t \in ran : \A u \in ran : t <= u}
        /\ record.finished_at = {e.at : e \in over}
        /\ is_terminal(record.state) <=> over # {}
        /\ \A e \in over : e.state = record.state /\ (e.state = "completed" => ran # {})
        /\ \A d \in duration(record) : d \in 0 .. now

(***************************************************************************)
(* "Get the latest event, if any." (events.rs): no event of the log has a   *)
(* later time than the one latest answers.                                  *)
(***************************************************************************)
LatestIsLatest == \A e \in latest : \A i \in DOMAIN log : log[i].timestamp <= e.timestamp
=============================================================================
