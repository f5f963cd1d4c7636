----------------------------- MODULE JsonStore -----------------------------
(***************************************************************************)
(* The JSON-backed stores behind a node's commands: claw_persist::JsonStore *)
(* and what the stores built on it share.  A store is a map from names to  *)
(* entries, held in memory and written whole to one file after every       *)
(* change.  A command runs in the daemon, on the daemon's memory, or in a  *)
(* `clawnode exec` process that loads the files, runs it and exits; the    *)
(* daemon does not learn of what such a process writes.  Each process runs *)
(* one command at a time.                                                  *)
(***************************************************************************)
EXTENDS Naturals, FiniteSets, Sequences, FiniteSetsExt

CONSTANTS Procs,      \* who runs commands: "daemon", "exec"
          Faults,     \* what may go wrong, each once: "save", "crash"
          MaxTime     \* bound on the clock

ASSUME TimeAssumption == MaxTime \in Nat

VARIABLES mem,     \* the daemon's maps: store -> name -> entry
          disk,    \* what loading each file returns
          clock,   \* Utc::now()
          reply,   \* the answer to the last command
          faults   \* history: what has gone wrong so far

store_vars == <<mem, disk, clock, reply, faults>>

NoReply == [cmd |-> "none"]
Ok(c, value) == [cmd |-> c, ok |-> TRUE, value |-> value]
Err(c) == [cmd |-> c, ok |-> FALSE]

\* An optional value is a set of at most one.
option(S) == {{}} \cup {{x} : x \in S}

EmptyStore == <<>>
Put(f, k, v) == [x \in DOMAIN f \cup {k} |-> IF x = k THEN v ELSE f[x]]
Drop(f, k) == [x \in DOMAIN f \ {k} |-> f[x]]

\* JsonStore::new and load when there is no file yet.
new(stores) == /\ mem = [s \in stores |-> EmptyStore]
               /\ disk = [s \in stores |-> EmptyStore]
               /\ clock = 0 /\ reply = NoReply /\ faults = {}

\* The maps a command of process p works on.
view(p) == IF p = "daemon" THEN mem ELSE disk

write(s, m) == <<[store |-> s, map |-> m]>>

\* The maps after writes that were made in order: the last one of a store counts.
apply(maps, writes) ==
    [s \in DOMAIN maps |-> LET of_s == {k \in DOMAIN writes : writes[k].store = s}
                           IN  IF of_s = {} THEN maps[s] ELSE writes[Max(of_s)].map]

\* Every write except the k-th.
all_but(writes, k) == SubSeq(writes, 1, k - 1) \o SubSeq(writes, k + 1, Len(writes))

fault(f) == f \in Faults \ faults /\ faults' = faults \cup {f}

-----------------------------------------------------------------------------
\* The end of a command that changes stores: it changes the map and snapshots
\* it, one store after the other, and answers.
save(p, writes, answer) ==
    /\ disk' = apply(disk, writes)
    /\ mem' = IF p = "daemon" THEN apply(mem, writes) ELSE mem
    /\ reply' = answer /\ UNCHANGED <<clock, faults>>

\* A snapshot that cannot be written is only logged, and may have truncated the file.
save_fails(p, writes, answer) ==
    /\ fault("save")
    /\ \E k \in DOMAIN writes :
          LET others == apply(disk, all_but(writes, k))
          IN  disk' \in {others, [others EXCEPT ![writes[k].store] = EmptyStore]}
    /\ mem' = IF p = "daemon" THEN apply(mem, writes) ELSE mem
    /\ reply' = answer /\ UNCHANGED clock

\* The process dies after k of the writes, before it answers; a file that it was
\* writing does not parse and loads as an empty map.  The daemon is started again.
dies(p, writes) ==
    /\ fault("crash")
    /\ \E k \in 0 .. Len(writes) :
          LET before == apply(disk, SubSeq(writes, 1, k))
          IN  \/ disk' = before
              \/ k < Len(writes) /\ disk' = [before EXCEPT ![writes[k + 1].store] = EmptyStore]
    /\ mem' = IF p = "daemon" THEN disk' ELSE mem
    /\ reply' = NoReply /\ UNCHANGED clock

commit(p, writes, answer) == \/ save(p, writes, answer)
                             \/ save_fails(p, writes, answer)
                             \/ dies(p, writes)

\* A command that changes only the memory of its process.
remember(p, s, m, answer) ==
    /\ mem' = IF p = "daemon" THEN [mem EXCEPT ![s] = m] ELSE mem
    /\ reply' = answer /\ UNCHANGED <<disk, clock, faults>>

\* A command that changes nothing, or is refused.
respond(answer) == reply' = answer /\ UNCHANGED <<mem, disk, clock, faults>>

\* What is read of the entry that get() or get_mut() returns becomes the answer; an
\* unknown name an error.
fetch(p, s, n, c, value) ==
    respond(IF n \in DOMAIN view(p)[s] THEN Ok(c, value) ELSE Err(c))

\* create(): a name that is there is refused.
create(p, s, n, entry, c) ==
    IF n \in DOMAIN view(p)[s] THEN respond(Err(c))
    ELSE commit(p, write(s, Put(view(p)[s], n, entry)), Ok(c, n))

\* get_mut() and then update(): an unknown name is refused.
modify(p, s, n, entry, c) ==
    IF n \notin DOMAIN view(p)[s] THEN respond(Err(c))
    ELSE commit(p, write(s, [view(p)[s] EXCEPT ![n] = entry]), Ok(c, n))

\* delete() or remove(): an unknown name is refused.
delete(p, s, n, c) ==
    IF n \notin DOMAIN view(p)[s] THEN respond(Err(c))
    ELSE commit(p, write(s, Drop(view(p)[s], n)), Ok(c, n))

\* The daemon is stopped, or killed between two commands, and started again.
restart == /\ mem' = disk /\ reply' = NoReply /\ UNCHANGED <<disk, clock, faults>>

tick == /\ clock < MaxTime /\ clock' = clock + 1 /\ reply' = NoReply
        /\ UNCHANGED <<mem, disk, faults>>
=============================================================================
