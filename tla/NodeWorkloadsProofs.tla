------------------------ MODULE NodeWorkloadsProofs ------------------------
(***************************************************************************)
(* GPU safety of the node's workload handlers, for every set of workloads, *)
(* every number of GPUs and every mix of requests and runtime failures.    *)
(***************************************************************************)
EXTENDS NodeWorkloads, Integers, SequenceTheorems, FunctionTheorems, FiniteSetTheorems, TLAPS

(***************************************************************************)
(* The strengthening: a tracked workload names a container that exists,    *)
(* two workloads never name the same one, and a running container that was *)
(* not abandoned belongs to a tracked workload holding the same GPUs.      *)
(***************************************************************************)
ContainersNamed ==
    /\ Len(containers) <= MaxContainers
    /\ \A w \in tracked : container_id[w] \in 1 .. Len(containers)
    /\ \A v, w \in tracked : container_id[v] = container_id[w] => v = w

RunningOwned ==
    \A c \in 1 .. Len(containers) :
        containers[c].state = "running" /\ c \notin abandoned =>
            \E w \in tracked : /\ container_id[w] = c
                               /\ gpu_ids[w] = containers[c].gpu_ids

Inv == TypeOK /\ ContainersNamed /\ RunningOwned /\ GpuLedgerExact /\ GpuExclusive

-----------------------------------------------------------------------------
\* First-fit allocation only hands out GPUs that the ledger shows as free.
LEMMA LowestFree ==
    ASSUME NEW count PROVE lowest_free(count) \subseteq Gpus \ allocated_gpus
BY DEF lowest_free, free_gpus

\* Rewriting the state of one container keeps the sequence of containers.
LEMMA SetContainerState ==
    ASSUME NEW cs \in Seq(Container), NEW c \in 1 .. Len(cs),
           NEW st \in ContainerState
    PROVE  /\ with_state(cs, c, st) \in Seq(Container)
           /\ Len(with_state(cs, c, st)) = Len(cs)
           /\ \A i \in 1 .. Len(cs) :
                 /\ with_state(cs, c, st)[i].gpu_ids = cs[i].gpu_ids
                 /\ with_state(cs, c, st)[i].state = IF i = c THEN st ELSE cs[i].state
<1> DEFINE e  == [cs[c] EXCEPT !.state = st]
           ds == [cs EXCEPT ![c] = e]
<1>1. cs[c] \in Container
  BY ElementOfSeq
<1>2. e \in Container /\ e.gpu_ids = cs[c].gpu_ids /\ e.state = st
  BY <1>1 DEF Container, ContainerState
<1> HIDE DEF e
<1>3. /\ ds \in Seq(Container)
      /\ Len(ds) = Len(cs)
      /\ \A i \in 1 .. Len(cs) : ds[i] = IF i = c THEN e ELSE cs[i]
  BY <1>2, ExceptSeq
<1> HIDE DEF ds
<1>4. \A i \in 1 .. Len(cs) :
         /\ ds[i].gpu_ids = cs[i].gpu_ids
         /\ ds[i].state = IF i = c THEN st ELSE cs[i].state
  BY <1>2, <1>3
<1> QED BY <1>3, <1>4 DEF ds, e, with_state

-----------------------------------------------------------------------------
\* A new node holds no GPU and runs no container.
LEMMA InitInv == Init => Inv
<1> SUFFICES ASSUME Init PROVE Inv
  OBVIOUS
<1>1. containers = <<>> /\ containers \in Seq(Container) /\ Len(containers) = 0
  BY EmptySeq DEF Init
<1>2. TypeOK
  BY <1>1, NodeAssumption DEF Init, TypeOK, WorkloadState
<1>3. ContainersNamed /\ RunningOwned
  BY <1>1, NodeAssumption DEF Init, ContainersNamed, RunningOwned
<1> QED BY <1>2, <1>3 DEF Init, Inv, GpuLedgerExact, GpuExclusive

\* A step that leaves the containers and the node state alone.
LEMMA QuietStep ==
    ASSUME Inv, node_unchanged, UNCHANGED <<containers, abandoned>>,
           reported' \in [WorkloadIds -> WorkloadState]
    PROVE  Inv'
BY DEF Inv, TypeOK, ContainersNamed, RunningOwned, GpuLedgerExact, GpuExclusive, node_unchanged

\* Reporting an update keeps the type of what has been reported.
LEMMA ReportedType ==
    ASSUME Inv, NEW w \in WorkloadIds, NEW st \in WorkloadState, workload_update(w, st)
    PROVE  reported' \in [WorkloadIds -> WorkloadState]
BY DEF Inv, TypeOK, workload_update

\* A failed create may leave a container behind, never a running one.
LEMMA CreateFailedStep ==
    ASSUME Inv, NEW w \in WorkloadIds, NEW spec \in WorkloadSpec,
           NEW left_behind \in BOOLEAN, StartCreateFailed(w, spec, left_behind)
    PROVE  Inv'
<1> DEFINE ids == lowest_free(spec.gpu_count)
           e   == [gpu_ids |-> ids, state |-> "created"]
<1>1. ids \subseteq Gpus \ allocated_gpus
  BY LowestFree
<1>2. e \in Container
  BY <1>1 DEF Container, ContainerState
<1>3. allocated_gpus' = allocated_gpus
  BY <1>1 DEF StartCreateFailed, release_gpus
<1>4. reported' \in [WorkloadIds -> WorkloadState]
  BY ReportedType DEF StartCreateFailed, WorkloadState
<1>5. containers' = containers \/ containers' = Append(containers, e)
  BY DEF StartCreateFailed
<1>6. CASE containers' = containers
  BY <1>3, <1>4, <1>6, QuietStep DEF StartCreateFailed, node_unchanged
<1>7. CASE containers' = Append(containers, e)
  <2> HIDE DEF ids
  <2>1. containers \in Seq(Container) /\ Len(containers) \in Nat
    BY LenProperties DEF Inv, TypeOK
  <2>2. /\ containers' \in Seq(Container)
        /\ Len(containers') = Len(containers) + 1
        /\ \A i \in 1 .. Len(containers) : containers'[i] = containers[i]
        /\ containers'[Len(containers) + 1] = e
    BY <1>2, <1>7, <2>1, AppendProperties
  <2>3. Len(containers') <= MaxContainers
    BY <2>1, <2>2, NodeAssumption DEF StartCreateFailed, StartAdmitted
  <2>4. UNCHANGED <<tracked, gpu_ids, container_id, spec_of, allocated_gpus, abandoned>>
    BY <1>3 DEF StartCreateFailed
  <2>5. TypeOK'
    BY <1>4, <2>2, <2>4 DEF Inv, TypeOK
  <2>6. ContainersNamed'
    BY <2>1, <2>2, <2>3, <2>4 DEF Inv, ContainersNamed
  <2>7. RunningOwned'
    <3>1. ASSUME NEW c \in 1 .. Len(containers'), containers'[c].state = "running"
          PROVE  c \in 1 .. Len(containers) /\ containers'[c] = containers[c]
      BY <2>1, <2>2, <3>1
    <3> QED BY <2>4, <3>1 DEF Inv, RunningOwned
  <2> QED BY <2>4, <2>5, <2>6, <2>7 DEF Inv, GpuLedgerExact, GpuExclusive
<1> QED BY <1>5, <1>6, <1>7

\* A successful start takes only free GPUs and names a fresh container.
LEMMA StartSucceedsStep ==
    ASSUME Inv, NEW w \in WorkloadIds, NEW spec \in WorkloadSpec, StartSucceeds(w, spec)
    PROVE  Inv'
<1> DEFINE ids == lowest_free(spec.gpu_count)
           e   == [gpu_ids |-> ids, state |-> "running"]
           n   == Len(containers) + 1
<1>1. ids \subseteq Gpus \ allocated_gpus
  BY LowestFree
<1>2. e \in Container /\ e.gpu_ids = ids
  BY <1>1 DEF Container, ContainerState
<1>3. containers \in Seq(Container) /\ Len(containers) \in Nat /\ w \notin tracked
  BY LenProperties DEF Inv, TypeOK, StartSucceeds, StartAdmitted
<1>4. /\ containers' = Append(containers, e)
      /\ tracked' = tracked \cup {w}
      /\ gpu_ids' = [gpu_ids EXCEPT ![w] = ids]
      /\ container_id' = [container_id EXCEPT ![w] = n]
      /\ spec_of' = [spec_of EXCEPT ![w] = spec]
      /\ allocated_gpus' = allocated_gpus \cup ids
      /\ abandoned' = abandoned
  BY DEF StartSucceeds
<1>5. reported' \in [WorkloadIds -> WorkloadState]
  BY ReportedType DEF StartSucceeds, WorkloadState
<1> HIDE DEF ids
<1>6. /\ containers' \in Seq(Container)
      /\ Len(containers') = n
      /\ \A i \in 1 .. Len(containers) : containers'[i] = containers[i]
      /\ containers'[n] = e
  BY <1>2, <1>3, <1>4, AppendProperties
<1>7. n \in 1 .. MaxContainers
  BY <1>3, NodeAssumption DEF StartSucceeds, StartAdmitted
<1>8. TypeOK'
  <2>1. container_id' \in [WorkloadIds -> 0 .. MaxContainers]
    BY <1>4, <1>7 DEF Inv, TypeOK
  <2>2. gpu_ids' \in [WorkloadIds -> SUBSET Gpus] /\ allocated_gpus' \subseteq Gpus
    BY <1>1, <1>4 DEF Inv, TypeOK
  <2>3. spec_of' \in [WorkloadIds -> WorkloadSpec \cup {NoSpec}]
    BY <1>4 DEF Inv, TypeOK
  <2> QED BY <1>4, <1>5, <1>6, <2>1, <2>2, <2>3 DEF Inv, TypeOK
<1>9. /\ gpu_ids'[w] = ids
      /\ container_id'[w] = n
      /\ \A v \in tracked : /\ v # w
                            /\ gpu_ids'[v] = gpu_ids[v]
                            /\ container_id'[v] = container_id[v]
                            /\ gpu_ids[v] \subseteq allocated_gpus
                            /\ container_id[v] \in 1 .. Len(containers)
  BY <1>3, <1>4 DEF Inv, TypeOK, GpuLedgerExact, ContainersNamed
<1>10. ContainersNamed'
  BY <1>3, <1>4, <1>6, <1>7, <1>9 DEF Inv, ContainersNamed
<1>11. RunningOwned'
  <2>1. \A c \in 1 .. Len(containers') : c = n \/ c \in 1 .. Len(containers)
    BY <1>3, <1>6
  <2>2. ASSUME NEW c \in 1 .. Len(containers), containers'[c].state = "running", c \notin abandoned'
        PROVE  \E v \in tracked' : /\ container_id'[v] = c
                                   /\ gpu_ids'[v] = containers'[c].gpu_ids
    BY <1>4, <1>6, <1>9, <2>2 DEF Inv, RunningOwned
  <2> QED BY <1>2, <1>4, <1>6, <1>9, <2>1, <2>2 DEF RunningOwned
<1>12. GpuLedgerExact'
  BY <1>4, <1>9 DEF Inv, GpuLedgerExact
<1>13. GpuExclusive'
  BY <1>1, <1>4, <1>9 DEF Inv, GpuExclusive
<1> QED BY <1>8, <1>10, <1>11, <1>12, <1>13 DEF Inv

(***************************************************************************)
(* Stopping a workload releases its GPUs and nobody else's; its container  *)
(* is no longer running, or is abandoned.                                  *)
(***************************************************************************)
LEMMA StopStep ==
    ASSUME Inv, NEW w \in WorkloadIds, NEW stop_ok \in BOOLEAN, NEW remove_ok \in BOOLEAN,
           StopTracked(w, stop_ok, remove_ok)
    PROVE  Inv'
<1> DEFINE c  == container_id[w]
           st == after_cleanup(containers[c].state, stop_ok, remove_ok)
<1>1. /\ containers \in Seq(Container)
      /\ Len(containers) \in Nat
      /\ w \in tracked
      /\ c \in 1 .. Len(containers)
      /\ containers[c] \in Container
  BY LenProperties, ElementOfSeq DEF Inv, TypeOK, ContainersNamed, StopTracked
<1>2. st \in ContainerState
  BY <1>1 DEF after_cleanup, Container, ContainerState
<1>3. st = "running" => c \in abandoned'
  BY <1>1 DEF after_cleanup, StopTracked
<1>4. /\ containers' = with_state(containers, c, st)
      /\ tracked' = tracked \ {w}
      /\ gpu_ids' = [gpu_ids EXCEPT ![w] = {}]
      /\ container_id' = [container_id EXCEPT ![w] = 0]
      /\ spec_of' = [spec_of EXCEPT ![w] = NoSpec]
      /\ allocated_gpus' = allocated_gpus \ gpu_ids[w]
      /\ abandoned \subseteq abandoned'
      /\ abandoned' \subseteq abandoned \cup {c}
  BY DEF StopTracked
<1>5. reported' \in [WorkloadIds -> WorkloadState]
  BY ReportedType DEF StopTracked, WorkloadState
<1> HIDE DEF st, c
<1>6. /\ containers' \in Seq(Container)
      /\ Len(containers') = Len(containers)
      /\ \A i \in 1 .. Len(containers) :
            /\ containers'[i].gpu_ids = containers[i].gpu_ids
            /\ containers'[i].state = IF i = c THEN st ELSE containers[i].state
  BY <1>1, <1>2, <1>4, SetContainerState
<1>7. /\ c \in 1 .. MaxContainers
      /\ 0 \in 0 .. MaxContainers
  BY <1>1, NodeAssumption DEF Inv, ContainersNamed
<1>8. TypeOK'
  BY <1>4, <1>5, <1>6, <1>7, Zenon DEF Inv, TypeOK
<1>9. \A v \in tracked' : /\ v \in tracked
                          /\ gpu_ids'[v] = gpu_ids[v]
                          /\ container_id'[v] = container_id[v]
                          /\ container_id[v] # c
                          /\ gpu_ids[v] \cap gpu_ids[w] = {}
  BY <1>1, <1>4 DEF Inv, TypeOK, ContainersNamed, GpuExclusive, c
<1>10. ContainersNamed'
  BY <1>6, <1>9 DEF Inv, ContainersNamed
<1>11. RunningOwned'
  <2> SUFFICES ASSUME NEW d \in 1 .. Len(containers), containers'[d].state = "running",
                      d \notin abandoned'
               PROVE  \E v \in tracked' : /\ container_id'[v] = d
                                          /\ gpu_ids'[v] = containers'[d].gpu_ids
    BY <1>6 DEF RunningOwned
  <2>1. d # c /\ containers[d].state = "running" /\ d \notin abandoned
    BY <1>3, <1>4, <1>6
  <2>2. PICK v \in tracked : container_id[v] = d /\ gpu_ids[v] = containers[d].gpu_ids
    BY <2>1 DEF Inv, RunningOwned
  <2>3. v \in tracked'
    BY <1>4, <2>1, <2>2 DEF c
  <2> QED BY <1>6, <1>9, <2>2, <2>3
<1>12. GpuLedgerExact'
  BY <1>1, <1>4, <1>9 DEF Inv, GpuLedgerExact
<1>13. GpuExclusive'
  BY <1>9 DEF Inv, GpuExclusive
<1> QED BY <1>8, <1>10, <1>11, <1>12, <1>13 DEF Inv

\* A container that exits by itself stops using its GPUs; the ledger is unmoved.
LEMMA ExitStep ==
    ASSUME Inv, NEW c \in DOMAIN containers, ContainerExits(c)
    PROVE  Inv'
<1>1. /\ containers \in Seq(Container)
      /\ c \in 1 .. Len(containers)
  BY LenProperties DEF Inv, TypeOK
<1>2. /\ containers' \in Seq(Container)
      /\ Len(containers') = Len(containers)
      /\ \A i \in 1 .. Len(containers) :
            /\ containers'[i].gpu_ids = containers[i].gpu_ids
            /\ containers'[i].state = "running" => containers[i].state = "running"
  BY <1>1, SetContainerState DEF ContainerExits, ContainerState
<1>3. UNCHANGED <<tracked, gpu_ids, container_id, spec_of, allocated_gpus, abandoned, reported>>
  BY DEF ContainerExits, node_unchanged
<1>4. TypeOK' /\ ContainersNamed' /\ RunningOwned'
  BY <1>2, <1>3 DEF Inv, TypeOK, ContainersNamed, RunningOwned
<1> QED BY <1>3, <1>4 DEF Inv, GpuLedgerExact, GpuExclusive

-----------------------------------------------------------------------------
\* Every handler, with each of its early returns, keeps the invariant.
LEMMA NextInv == Inv /\ [Next]_vars => Inv'
<1> SUFFICES ASSUME Inv, [Next]_vars PROVE Inv'
  OBVIOUS
<1>1. ASSUME NEW w \in WorkloadIds, NEW spec \in WorkloadSpec, handle_start_workload(w, spec)
      PROVE  Inv'
  <2>1. CASE StartInvalid(w, spec) \/ StartNoGpus(w, spec)
    <3>1. workload_update(w, "Failed") /\ node_unchanged /\ UNCHANGED <<containers, abandoned>>
      BY <2>1 DEF StartInvalid, StartNoGpus
    <3> QED BY <3>1, QuietStep, ReportedType DEF WorkloadState
  <2>2. CASE StartExisting(w, spec)
    BY <2>2, QuietStep DEF StartExisting, Inv, TypeOK
  <2>3. ASSUME NEW left_behind \in BOOLEAN, StartCreateFailed(w, spec, left_behind)
        PROVE  Inv'
    BY <2>3, CreateFailedStep
  <2>4. CASE StartSucceeds(w, spec)
    BY <2>4, StartSucceedsStep
  <2> QED BY <1>1, <2>1, <2>2, <2>3, <2>4 DEF handle_start_workload
<1>2. ASSUME NEW w \in WorkloadIds, handle_stop_workload(w)
      PROVE  Inv'
  <2>1. CASE StopMissing(w)
    BY <2>1, QuietStep DEF StopMissing, Inv, TypeOK
  <2>2. ASSUME NEW stop_ok \in BOOLEAN, NEW remove_ok \in BOOLEAN,
               StopTracked(w, stop_ok, remove_ok)
        PROVE  Inv'
    BY <2>2, StopStep
  <2> QED BY <1>2, <2>1, <2>2 DEF handle_stop_workload
<1>3. ASSUME NEW c \in DOMAIN containers, ContainerExits(c)
      PROVE  Inv'
  BY <1>3, ExitStep
<1>4. CASE UNCHANGED vars
  BY <1>4 DEF vars, Inv, TypeOK, ContainersNamed, RunningOwned, GpuLedgerExact, GpuExclusive
<1> QED BY <1>1, <1>2, <1>3, <1>4 DEF Next

-----------------------------------------------------------------------------
(***************************************************************************)
(* The place of a number in a finite set of numbers, counted from 0, is a  *)
(* bijection onto 0 .. n - 1: no two numbers have the same place, and n    *)
(* numbers have n places.                                                  *)
(***************************************************************************)
LEMMA PlaceBijection ==
    ASSUME NEW F \in SUBSET Nat, IsFiniteSet(F), NEW place,
           place = [g \in F |-> Cardinality({h \in F : h < g})]
    PROVE  place \in Bijection(F, 0 .. Cardinality(F) - 1)
<1> DEFINE below(g) == {h \in F : h < g}
           P == 0 .. Cardinality(F) - 1
<1>1. Cardinality(F) \in Nat
  BY FS_CardinalityType
<1>2. ASSUME NEW g \in F
      PROVE  /\ below(g) \in SUBSET F /\ g \notin below(g)
             /\ IsFiniteSet(below(g)) /\ Cardinality(below(g)) \in Nat
  <2>1. below(g) \in SUBSET F /\ g \notin below(g)
    OBVIOUS
  <2> QED BY <2>1, FS_Subset, FS_CardinalityType
<1>3. ASSUME NEW g \in F PROVE Cardinality(below(g)) \in P
  <2>1. Cardinality(below(g)) <= Cardinality(F) /\ Cardinality(below(g)) # Cardinality(F)
    BY <1>2, FS_Subset
  <2> QED BY <1>1, <1>2, <2>1
<1>4. ASSUME NEW g \in F, NEW h \in F, h < g
      PROVE  Cardinality(below(h)) # Cardinality(below(g))
  <2>1. \A x \in F : x \in Nat
    OBVIOUS
  <2>2. \A x \in below(h) : x < g
    BY <1>4, <2>1
  <2>3. below(h) \in SUBSET below(g)
    BY <2>2, Zenon
  <2>4. h \in below(g) /\ h \notin below(h)
    BY <1>4, <2>1
  <2> QED BY <1>2, <2>3, <2>4, FS_Subset, Zenon
<1>5. place \in [F -> P]
  BY <1>3
<1>6. ASSUME NEW g \in F, NEW h \in F, place[g] = place[h] PROVE g = h
  <2>1. Cardinality(below(g)) = Cardinality(below(h))
    BY <1>6
  <2>2. g < h \/ h < g \/ g = h
    OBVIOUS
  <2> QED BY <1>4, <2>1, <2>2
<1>7. place \in Injection(F, P)
  BY <1>5, <1>6, Zenon DEF Injection, IsInjective
<1>8. IsFiniteSet(P) /\ Cardinality(P) = Cardinality(F)
  <2>1. 0 \in Int /\ Cardinality(F) - 1 \in Int
    BY <1>1
  <2>2. /\ IsFiniteSet(P)
        /\ Cardinality(P) = IF 0 > Cardinality(F) - 1 THEN 0 ELSE Cardinality(F) - 1 - 0 + 1
    BY <2>1, FS_Interval, Zenon
  <2> HIDE DEF P
  <2> QED BY <1>1, <2>2
<1>9. place \in Surjection(F, P)
  BY <1>7, <1>8, FS_Injection
<1> QED BY <1>7, <1>9 DEF Bijection

\* First-fit allocation (allocate_gpus) finds as many GPUs as are asked for, if so many
\* are free.
LEMMA LowestFreeCount ==
    ASSUME allocated_gpus \subseteq Gpus, NEW count \in Nat, count <= available_gpu_count
    PROVE  Cardinality(lowest_free(count)) = count
<1> DEFINE F == free_gpus
           place == [g \in F |-> Cardinality({h \in F : h < g})]
           L == lowest_free(count)
           C == 0 .. count - 1
           low == [g \in L |-> place[g]]
<1>1. IsFiniteSet(Gpus) /\ Cardinality(Gpus) = TotalGpus
  BY NodeAssumption, FS_Interval DEF Gpus
<1>2. IsFiniteSet(allocated_gpus) /\ Cardinality(allocated_gpus) \in 0 .. TotalGpus
  BY <1>1, FS_Subset, FS_CardinalityType, NodeAssumption
<1>3. F \in SUBSET Nat /\ IsFiniteSet(F) /\ Cardinality(F) = TotalGpus - Cardinality(allocated_gpus)
  <2>1. Gpus \cap allocated_gpus = allocated_gpus
    OBVIOUS
  <2>2. IsFiniteSet(F) /\ Cardinality(F) = Cardinality(Gpus) - Cardinality(Gpus \cap allocated_gpus)
    BY <1>1, FS_Difference DEF free_gpus
  <2>3. F \in SUBSET Nat
    BY NodeAssumption DEF free_gpus, Gpus
  <2> QED BY <1>1, <2>1, <2>2, <2>3
<1>4. count <= Cardinality(F)
  BY <1>2, <1>3, NodeAssumption DEF available_gpu_count
<1>5. place \in Bijection(F, 0 .. Cardinality(F) - 1)
  BY <1>3, PlaceBijection
<1>6. L = {g \in F : place[g] < count}
  BY DEF lowest_free
<1> HIDE DEF place, L, F
<1>7. /\ \A g \in F : place[g] \in 0 .. Cardinality(F) - 1
      /\ \A g, h \in F : place[g] = place[h] => g = h
      /\ \A i \in 0 .. Cardinality(F) - 1 : \E g \in F : place[g] = i
  BY <1>5 DEF Bijection, Injection, IsInjective, Surjection
<1>8. low \in [L -> C]
  <2>1. ASSUME NEW g \in L PROVE place[g] \in C
    <3>1. place[g] \in Nat /\ place[g] < count
      BY <1>2, <1>3, <1>6, <1>7, NodeAssumption
    <3> QED BY <3>1
  <2> QED BY <2>1
<1>9. \A g, h \in L : low[g] = low[h] => g = h
  BY <1>6, <1>7
<1>10. ASSUME NEW i \in C PROVE \E g \in L : low[g] = i
  <2>1. i \in 0 .. Cardinality(F) - 1
    BY <1>2, <1>3, <1>4, NodeAssumption
  <2>2. PICK g \in F : place[g] = i
    BY <1>7, <2>1
  <2> QED BY <1>6, <2>2
<1>11. low \in Bijection(L, C)
  BY <1>8, <1>9, <1>10 DEF Bijection, Injection, IsInjective, Surjection
<1>12. IsFiniteSet(L)
  BY <1>3, <1>6, FS_Subset
<1>13. Cardinality(C) = Cardinality(L)
  BY <1>11, <1>12, FS_Bijection DEF ExistsBijection
<1>14. Cardinality(C) = count
  BY FS_Interval
<1> QED BY <1>13, <1>14 DEF L

\* Each handler leaves every tracked workload with as many GPUs as it asked for.
LEMMA GrantedStep == Inv /\ GrantedCountExact /\ [Next]_vars => GrantedCountExact'
<1> SUFFICES ASSUME Inv, GrantedCountExact, [Next]_vars PROVE GrantedCountExact'
  OBVIOUS
<1>1. CASE UNCHANGED <<tracked, gpu_ids, spec_of>>
  BY <1>1 DEF GrantedCountExact
<1>2. ASSUME NEW w \in WorkloadIds, NEW spec \in WorkloadSpec, StartSucceeds(w, spec)
      PROVE  GrantedCountExact'
  <2> DEFINE ids == lowest_free(spec.gpu_count)
  <2>1. spec.gpu_count \in Nat
    BY NodeAssumption, Zenon DEF WorkloadSpec
  <2>2. Cardinality(ids) = spec.gpu_count
    BY <1>2, <2>1, LowestFreeCount DEF StartSucceeds, StartAdmitted, Inv, TypeOK
  <2>3. /\ tracked' = tracked \cup {w} /\ w \notin tracked
        /\ gpu_ids' = [gpu_ids EXCEPT ![w] = ids]
        /\ spec_of' = [spec_of EXCEPT ![w] = spec]
    BY <1>2 DEF StartSucceeds, StartAdmitted
  <2> HIDE DEF ids
  <2>4. gpu_ids'[w] = ids /\ spec_of'[w] = spec
    BY <2>3 DEF Inv, TypeOK
  <2>5. \A v \in tracked : gpu_ids'[v] = gpu_ids[v] /\ spec_of'[v] = spec_of[v]
    BY <2>3 DEF Inv, TypeOK
  <2> QED BY <2>2, <2>3, <2>4, <2>5 DEF GrantedCountExact
<1>3. ASSUME NEW w \in WorkloadIds, NEW stop_ok \in BOOLEAN, NEW remove_ok \in BOOLEAN,
             StopTracked(w, stop_ok, remove_ok)
      PROVE  GrantedCountExact'
  <2>1. /\ tracked' = tracked \ {w}
        /\ gpu_ids' = [gpu_ids EXCEPT ![w] = {}]
        /\ spec_of' = [spec_of EXCEPT ![w] = NoSpec]
    BY <1>3 DEF StopTracked
  <2> QED BY <2>1 DEF GrantedCountExact, Inv, TypeOK
<1>4. ASSUME NEW w \in WorkloadIds, NEW spec \in WorkloadSpec, handle_start_workload(w, spec)
      PROVE  GrantedCountExact'
  <2>1. StartSucceeds(w, spec) \/ UNCHANGED <<tracked, gpu_ids, spec_of>>
    BY <1>4 DEF handle_start_workload, StartInvalid, StartExisting, StartNoGpus,
                StartCreateFailed, node_unchanged
  <2> QED BY <1>1, <1>2, <2>1
<1>5. ASSUME NEW w \in WorkloadIds, handle_stop_workload(w) PROVE GrantedCountExact'
  BY <1>1, <1>3, <1>5 DEF handle_stop_workload, StopMissing, node_unchanged
<1>6. ASSUME NEW c \in DOMAIN containers, ContainerExits(c) PROVE GrantedCountExact'
  BY <1>1, <1>6 DEF ContainerExits, node_unchanged
<1> QED BY <1>1, <1>4, <1>5, <1>6 DEF Next, vars

\* Every handler tells the gateway of a workload what it has just made of it, and a handler
\* that returns early leaves it as it was, or says that it failed.
LEMMA UpdatesStep == Inv /\ UpdatesTrue /\ [Next]_vars => UpdatesTrue'
<1> SUFFICES ASSUME Inv, UpdatesTrue, [Next]_vars PROVE UpdatesTrue'
  OBVIOUS
<1> USE DEF UpdatesTrue, get_workload_status
<1>1. CASE UNCHANGED <<tracked, reported>>
  BY <1>1
<1>2. ASSUME NEW w \in WorkloadIds, workload_update(w, "Failed"), tracked' = tracked
      PROVE  UpdatesTrue'
  BY <1>2 DEF workload_update, Inv, TypeOK
<1>3. ASSUME NEW w \in WorkloadIds, NEW spec, handle_start_workload(w, spec) PROVE UpdatesTrue'
  <2>1. CASE StartSucceeds(w, spec)
    BY <2>1 DEF StartSucceeds, workload_update, Inv, TypeOK
  <2> QED BY <1>1, <1>2, <1>3, <2>1
          DEF handle_start_workload, StartInvalid, StartExisting, StartNoGpus, StartCreateFailed,
              node_unchanged
<1>4. ASSUME NEW w \in WorkloadIds, handle_stop_workload(w) PROVE UpdatesTrue'
  <2>1. ASSUME NEW stop_ok, NEW remove_ok, StopTracked(w, stop_ok, remove_ok) PROVE UpdatesTrue'
    BY <2>1 DEF StopTracked, workload_update, Inv, TypeOK
  <2> QED BY <1>1, <1>4, <2>1 DEF handle_stop_workload, StopMissing, node_unchanged
<1>5. ASSUME NEW c, ContainerExits(c) PROVE UpdatesTrue'
  BY <1>1, <1>5 DEF ContainerExits, node_unchanged
<1> QED BY <1>1, <1>3, <1>4, <1>5 DEF Next, vars

\* Every variable keeps its type in every reachable state of the handlers.
THEOREM TypeCorrect == Spec => []TypeOK
<1>1. Inv => TypeOK
  BY DEF Inv
<1> QED BY <1>1, InitInv, NextInv, PTL DEF Spec

(***************************************************************************)
(* handle_start_workload and handle_stop_workload keep the GPU ledger      *)
(* exact and never give one GPU to two tracked workloads.                  *)
(***************************************************************************)
THEOREM GpuSafety == Spec => [](GpuLedgerExact /\ GpuExclusive)
<1>1. Inv => GpuLedgerExact /\ GpuExclusive
  BY DEF Inv
<1> QED BY <1>1, InitInv, NextInv, PTL DEF Spec

(***************************************************************************)
(* The GPUs the ledger of NodeState marks are those the tracked workloads  *)
(* hold, and a workload that was started holds exactly as many as its spec *)
(* asked for: allocate_gpus never comes up short once the check of         *)
(* available_gpu_count has passed, whatever was taken and given back.  The *)
(* updates sent of a workload agree with get_workload_status.              *)
(***************************************************************************)
THEOREM LedgerFits == Spec => []LedgerFitsWorkloads
<1>1. Init => GrantedCountExact /\ UpdatesTrue
  BY DEF Init, GrantedCountExact, UpdatesTrue, get_workload_status
<1>2. Inv /\ GrantedCountExact /\ UpdatesTrue => LedgerFitsWorkloads
  BY DEF Inv, LedgerFitsWorkloads
<1> QED BY <1>1, <1>2, InitInv, NextInv, GrantedStep, UpdatesStep, PTL DEF Spec

(***************************************************************************)
(* Two running containers share a GPU only when handle_stop_workload gave  *)
(* one of them up after its stop and its remove had both failed.           *)
(***************************************************************************)
THEOREM RunningContainersIsolated == Spec => []SharedGpuOnlyWithAbandoned
<1>1. Inv => SharedGpuOnlyWithAbandoned
  <2> SUFFICES ASSUME Inv, NEW c \in DOMAIN containers, NEW d \in DOMAIN containers,
                      c # d, containers[c].state = "running", containers[d].state = "running",
                      c \notin abandoned, d \notin abandoned
               PROVE  containers[c].gpu_ids \cap containers[d].gpu_ids = {}
    BY DEF SharedGpuOnlyWithAbandoned
  <2>1. c \in 1 .. Len(containers) /\ d \in 1 .. Len(containers)
    BY LenProperties DEF Inv, TypeOK
  <2>2. PICK v \in tracked : container_id[v] = c /\ gpu_ids[v] = containers[c].gpu_ids
    BY <2>1 DEF Inv, RunningOwned
  <2>3. PICK w \in tracked : container_id[w] = d /\ gpu_ids[w] = containers[d].gpu_ids
    BY <2>1 DEF Inv, RunningOwned
  <2> QED BY <2>2, <2>3 DEF Inv, GpuExclusive
<1> QED BY <1>1, InitInv, NextInv, PTL DEF Spec
=============================================================================
