----------------------------- MODULE JobTunnels -----------------------------
(***************************************************************************)
(* The tunnels between the buyer and the provider of a job and the mesh    *)
(* addresses they are given, crates/molt-p2p/src/tunnel.rs.  The manager   *)
(* keeps tunnels, addresses and peers behind three locks.  Creating a      *)
(* tunnel takes and returns the address lock and the tunnel lock one after *)
(* the other, so calls for other jobs come in between; every await is also *)
(* a point at which the caller may drop the call and leave it half done.   *)
(***************************************************************************)
EXTENDS Naturals, FiniteSets

CONSTANTS Jobs,        \* JobId values
          Providers,   \* PeerId values
          ProviderOf,  \* ProviderOf[job]
          Recreate,    \* may create_job_tunnel be called again for a job?
          MaxNext,     \* bound on the allocator's counter
          MaxBytes     \* bound on the bytes recorded in a tunnel

VARIABLES tunnels,    \* TunnelManager::tunnels; tunnels[job] is {} or one tunnel
          next,       \* IpAllocator::next
          allocated,  \* IpAllocator::allocated; allocated[job] is {} or one address
          peers,      \* TunnelManager::peers
          creating,   \* creating[job] is {} or the address of an unfinished creation
          handles,    \* handles[job] is {} or the tunnel the last call returned
          known       \* history: jobs create_job_tunnel was called for

tunnel_vars == <<tunnels, next, allocated, peers, creating, handles, known>>

TunnelState == {"Establishing", "Active", "Closing", "Closed", "Failed"}

Tunnel == [ip : 1..MaxNext, state : TunnelState, bytes : 0..MaxBytes]

TunnelTypeOK == /\ \A j \in Jobs : /\ tunnels[j] \subseteq Tunnel /\ handles[j] \subseteq Tunnel
                                   /\ allocated[j] \subseteq 1..MaxNext
                                   /\ creating[j] \subseteq 1..MaxNext
                /\ next \in 1..(MaxNext + 1)
                /\ peers \subseteq Providers
                /\ known \subseteq Jobs

TunnelInit == /\ tunnels = [j \in Jobs |-> {}]
              /\ next = 1
              /\ allocated = [j \in Jobs |-> {}]
              /\ peers = {}
              /\ creating = [j \in Jobs |-> {}]
              /\ handles = [j \in Jobs |-> {}]
              /\ known = {}

-----------------------------------------------------------------------------
\* JobTunnel::new.  An address is its distance from the base of the network.
new(ip) == [ip |-> ip, state |-> "Establishing", bytes |-> 0]

mark_active(t) == IF t.state = "Establishing" THEN [t EXCEPT !.state = "Active"] ELSE t

mark_closing(t) == IF t.state = "Active" THEN [t EXCEPT !.state = "Closing"] ELSE t

mark_closed(t) == [t EXCEPT !.state = "Closed"]

\* A creation holds the peers lock for reading until it returns.
register_peer(p) == /\ \A j \in Jobs : creating[j] = {}
                    /\ peers' = peers \cup {p}
                    /\ UNCHANGED <<tunnels, next, allocated, creating, handles, known>>

\* IpAllocator::allocate.
allocate(j) == /\ next' = next + 1
               /\ allocated' = [allocated EXCEPT ![j] = {next}]
               /\ creating' = [creating EXCEPT ![j] = {next}]

release(j) == allocated' = [allocated EXCEPT ![j] = {}]

\* create_job_tunnel up to the release of the address lock.
create_begin(j) ==
    /\ creating[j] = {} /\ next <= MaxNext
    /\ Recreate \/ j \notin known
    /\ ProviderOf[j] \in peers
    /\ allocate(j)
    /\ known' = known \cup {j}
    /\ UNCHANGED <<tunnels, peers, handles>>

\* The rest of create_job_tunnel: the tunnel is stored as active, and the
\* caller is given another one, still being established.
create_end(j) == \E ip \in creating[j] :
    /\ tunnels' = [tunnels EXCEPT ![j] = {mark_active(new(ip))}]
    /\ handles' = [handles EXCEPT ![j] = {new(ip)}]
    /\ creating' = [creating EXCEPT ![j] = {}]
    /\ UNCHANGED <<next, allocated, peers, known>>

\* The caller drops a creation that waits for the tunnel lock.
create_dropped(j) == /\ creating[j] # {}
                     /\ creating' = [creating EXCEPT ![j] = {}]
                     /\ UNCHANGED <<tunnels, next, allocated, peers, handles, known>>

\* Variant: the address is released before the tunnel is looked up.
close_releasing_first(j) == /\ allocated[j] # {}
                            /\ release(j)
                            /\ tunnels' = [tunnels EXCEPT ![j] = {}]
                            /\ UNCHANGED <<next, peers, creating, handles, known>>

\* close_tunnel holds the tunnel lock from the lookup to the removal.
close_tunnel(j) == /\ tunnels[j] # {}
                   /\ release(j)
                   /\ tunnels' = [tunnels EXCEPT ![j] = {}]
                   /\ UNCHANGED <<next, peers, creating, handles, known>>

\* The caller drops a close that waits for the address lock.
close_dropped(j) == /\ tunnels[j] # {}
                    /\ tunnels' = [tunnels EXCEPT ![j] = {mark_closed(mark_closing(t)) : t \in @}]
                    /\ UNCHANGED <<next, allocated, peers, creating, handles, known>>

\* get_tunnel builds a new tunnel with the stored identity and address.
get_tunnel(j) == /\ tunnels[j] # {}
                 /\ handles' = [handles EXCEPT ![j] = {new(t.ip) : t \in tunnels[j]}]
                 /\ UNCHANGED <<tunnels, next, allocated, peers, creating, known>>

\* Traffic is counted in the tunnel the caller holds (record_sent on its
\* bandwidth) or in the stored one (get_bandwidth).
with_traffic(ts) == {[t EXCEPT !.bytes = @ + 1] : t \in ts}

record_in_handle(j) == /\ \E t \in handles[j] : t.bytes < MaxBytes
                       /\ handles' = [handles EXCEPT ![j] = with_traffic(@)]
                       /\ UNCHANGED <<tunnels, next, allocated, peers, creating, known>>

record_in_stored(j) == /\ \E t \in tunnels[j] : t.bytes < MaxBytes
                       /\ tunnels' = [tunnels EXCEPT ![j] = with_traffic(@)]
                       /\ UNCHANGED <<next, allocated, peers, creating, handles, known>>

TunnelNext == \/ \E p \in Providers : register_peer(p)
              \/ \E j \in Jobs : \/ create_begin(j) \/ create_end(j) \/ create_dropped(j)
                                 \/ close_tunnel(j) \/ close_dropped(j) \/ get_tunnel(j)
                                 \/ record_in_handle(j) \/ record_in_stored(j)

TunnelSpec == TunnelInit /\ [][TunnelNext]_tunnel_vars

-----------------------------------------------------------------------------
\* No two jobs share a mesh address, and the address of a stored tunnel is the
\* one the allocator has down for its job, whatever calls were interleaved or
\* dropped half way ("with a unique allocated IP for routing within the mesh").
\* Holds when each job is created once; a second creation for a job that is
\* being closed leaves a tunnel whose address is no longer recorded.
TunnelsHoldAddresses ==
    LET used(j) == creating[j] \cup {t.ip : t \in tunnels[j]}
    IN  /\ \A j \in Jobs : {t.ip : t \in tunnels[j]} \subseteq allocated[j]
        /\ \A j, k \in Jobs : j # k => used(j) \cap used(k) = {}

\* "Returns the current tunnel state.": the tunnel a caller was given has the
\* state of the stored one.  It does not: create_job_tunnel and get_tunnel
\* return a tunnel still being established in place of the active one.
HandleTellsState ==
    \A j \in Jobs : \A h \in handles[j], t \in tunnels[j] : h.ip = t.ip => h.state = t.state
=============================================================================
