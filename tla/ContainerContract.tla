------------------------- MODULE ContainerContract -------------------------
(***************************************************************************)
(* What the users of a container runtime (the trait ContainerRuntime of    *)
(* crates/clawnode/src/runtime.rs) rely on: an id names one container for  *)
(* ever, with the GPUs it was created with; it comes and goes once, and in *)
(* between is up or not.                                                   *)
(***************************************************************************)
CONSTANTS Ids, Gpus

VARIABLES containers,   \* id -> [gpus, up]
          used          \* ids that have named a container

vars == <<containers, used>>

Init == containers = <<>> /\ used = {}

create(c) ==
    /\ c \notin used /\ used' = used \cup {c}
    /\ \E gpus \in SUBSET Gpus, up \in BOOLEAN :
         containers' = [x \in DOMAIN containers \cup {c} |->
                           IF x = c THEN [gpus |-> gpus, up |-> up] ELSE containers[x]]

turn(c) == containers' = [containers EXCEPT ![c].up = ~ @] /\ UNCHANGED used

remove(c) == containers' = [x \in DOMAIN containers \ {c} |-> containers[x]] /\ UNCHANGED used

Next == \/ \E c \in Ids : create(c)
        \/ \E c \in DOMAIN containers : turn(c) \/ remove(c)

Spec == Init /\ [][Next]_vars
=============================================================================
