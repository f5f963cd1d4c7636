-------------------------- MODULE NetworkCommands --------------------------
(***************************************************************************)
(* The service.*, ingress.* and network.* commands of a node,              *)
(* crates/clawnode/src/network_cmd.rs, over ServiceStore of                *)
(* crates/claw-ingress, and the live state behind them: ServiceDiscovery   *)
(* (service_discovery.rs), PolicyEngine (netpolicy.rs) and the routes of   *)
(* the ingress proxy (ingress_proxy.rs).  The store is on disk; the live   *)
(* state is in the daemon's memory; the iptables chains are the kernel's   *)
(* and outlive the daemon.  refresh_all_endpoints, update_endpoints,       *)
(* refresh_all and build_route_table are the library's, for whoever embeds *)
(* it: no command calls them.                                              *)
(***************************************************************************)
EXTENDS JsonStore, SequencesExt

CONSTANTS ServiceNames, Ingresses, Policies,  \* what the commands may name or create
          Selectors,        \* label selectors of services: sets of labels
          Ips, Workloads,   \* container addresses; possible workloads [ip, labels]
          Ports, Requests,  \* packets are for a port; what the proxy is asked for: [host, path]
          LastVip,          \* 65534 in the code: where the ClusterIP range ends
          MaxConnections, MaxRules  \* bounds: connections to a VIP, DNAT rules

VARIABLES sd,        \* state.service_discovery
          pe,        \* state.policy_engine: the compiled policies, oldest first
          routes,    \* state.ingress_routes
          nat,       \* the CLAW-SERVICES chain
          filter,    \* the CLAW-NETPOL chain
          enforced,  \* history: the workloads of the last refresh_all, while it is current
          sent       \* history: the backends that connections to a VIP were sent to

live_vars == <<sd, pe, routes>>
kernel_vars == <<nat, filter>>
history_vars == <<enforced, sent>>
network_vars == <<live_vars, kernel_vars, history_vars>>
vars == <<store_vars, network_vars>>

Stores == {"services", "ingresses", "network_policies"}

NewDiscovery(on) == [on |-> on, services |-> EmptyStore, vip_to_service |-> EmptyStore,
                     next_vip |-> 1]

Endpoint == [ip : Ips, healthy : BOOLEAN]
ServiceRecord == [cluster_ip : 1 .. LastVip, selector : Selectors, endpoints : Seq(Endpoint)]

TypeOK == /\ DOMAIN mem = Stores /\ DOMAIN disk = Stores
          /\ sd.on \in BOOLEAN /\ sd.next_vip \in 1 .. LastVip
          /\ \A n \in DOMAIN sd.services : sd.services[n] \in ServiceRecord
          /\ \A k \in DOMAIN nat : nat[k].every \in 1 .. Cardinality(Ips)

\* init_networking either sets up all of the live state or none of it.
booted == /\ \E on \in BOOLEAN : sd' = NewDiscovery(on)
          /\ pe' = <<>> /\ routes' = <<>>
          /\ enforced' = {} /\ UNCHANGED <<kernel_vars, sent>>

Init == /\ new(Stores)
        /\ \E on \in BOOLEAN : sd = NewDiscovery(on)
        /\ pe = <<>> /\ routes = <<>> /\ nat = <<>> /\ filter = <<>>
        /\ enforced = {} /\ sent = EmptyStore

-----------------------------------------------------------------------------
(* ServiceDiscovery *)

matches_selector(labels, selector) == selector # {} /\ selector \subseteq labels

\* Variant: the address after the last one is handed out.
allocate_vip_past_end(d) == IF d.next_vip > LastVip THEN {} ELSE {d.next_vip}

allocate_vip(d) == IF d.next_vip >= LastVip THEN {} ELSE {d.next_vip}

register_service(d, n, selector) ==
    IF n \in DOMAIN d.services \/ allocate_vip(d) = {} THEN d
    ELSE LET vip == d.next_vip
         IN  [d EXCEPT !.services = Put(@, n, [cluster_ip |-> vip, selector |-> selector,
                                               endpoints |-> <<>>]),
                       !.vip_to_service = Put(@, vip, n),
                       !.next_vip = @ + 1]

remove_service(d, n) ==
    IF n \notin DOMAIN d.services THEN d
    ELSE [d EXCEPT !.services = Drop(@, n),
                   !.vip_to_service = Drop(@, d.services[n].cluster_ip)]

\* iptables -D deletes a rule that equals the given specification.  The code gives
\* the destination alone, so no rule with a protocol, a port and a target equals it.
iptables_delete(chain, spec) == SelectSeq(chain, LAMBDA r : r # spec)

remove_dnat_rules(chain, vip) == iptables_delete(chain, [vip |-> vip])

\* Variant: the shares in the other order.
dnat_rules_reversed(vip, backends) ==
    [i \in DOMAIN backends |-> [vip |-> vip, to |-> backends[i], every |-> i, seen |-> 0]]

\* -m statistic --mode nth --every n - i: the rule takes the first packet it sees of
\* every n - i.  A single backend takes all.
dnat_rules(vip, backends) ==
    [i \in DOMAIN backends |-> [vip |-> vip, to |-> backends[i],
                                every |-> Len(backends) - i + 1, seen |-> 0]]

apply_dnat_rules(chain, vip, backends) ==
    remove_dnat_rules(chain, vip) \o dnat_rules(vip, backends)

healthy(endpoints) == LET up == SelectSeq(endpoints, LAMBDA e : e.healthy)
                      IN  [i \in DOMAIN up |-> up[i].ip]

set_endpoints(d, n, endpoints) == [d EXCEPT !.services[n].endpoints = endpoints]

update_endpoints(n, endpoints) ==
    /\ sd.on /\ n \in DOMAIN sd.services
    /\ sd' = set_endpoints(sd, n, endpoints)
    /\ nat' = apply_dnat_rules(nat, sd.services[n].cluster_ip, healthy(endpoints))
    /\ Len(nat') <= MaxRules
    /\ respond(NoReply)
    /\ UNCHANGED <<pe, routes, filter, history_vars>>

selected(running, selector) ==
    LET chosen == SetToSeq({w \in running : matches_selector(w.labels, selector)})
    IN  [i \in DOMAIN chosen |-> [ip |-> chosen[i].ip, healthy |-> TRUE]]

\* The services come in any order; their rules are for different VIPs.
refresh_all_endpoints(running) ==
    /\ sd.on
    /\ LET names == SetToSeq(DOMAIN sd.services)
           found(n) == selected(running, sd.services[n].selector)
       IN  /\ sd' = FoldLeft(LAMBDA d, n : set_endpoints(d, n, found(n)), sd, names)
           /\ nat' = FoldLeft(LAMBDA c, n : apply_dnat_rules(c, sd.services[n].cluster_ip,
                                                             healthy(found(n))), nat, names)
    /\ Len(nat') <= MaxRules
    /\ respond(NoReply)
    /\ UNCHANGED <<pe, routes, filter, history_vars>>

\* The kernel sends a new connection along the chain: rules of the VIP count it one
\* by one until one takes it.
takes(r, vip) == r.vip = vip /\ r.seen % r.every = 0

connect(vip) ==
    LET takers == {k \in DOMAIN nat : takes(nat[k], vip)}
        first == CHOOSE k \in takers : \A j \in takers : k <= j
        known == IF vip \in DOMAIN sent THEN sent[vip] ELSE <<>>
    IN  /\ takers # {} /\ Len(known) < MaxConnections
        /\ nat' = [k \in DOMAIN nat |-> IF k <= first /\ nat[k].vip = vip
                                        THEN [nat[k] EXCEPT !.seen = @ + 1] ELSE nat[k]]
        /\ sent' = Put(sent, vip, Append(known, nat[first].to))
        /\ respond(NoReply) /\ UNCHANGED <<live_vars, filter, enforced>>

-----------------------------------------------------------------------------
(* PolicyEngine *)

compile_rule(r) == [r EXCEPT !.port = {x % 65536 : x \in r.port}]

compile_policy(policy) ==
    [policy EXCEPT !.ingress = [i \in DOMAIN @ |-> compile_rule(@[i])],
                   !.egress = [i \in DOMAIN @ |-> compile_rule(@[i])]]

find_matching_ips(running, selector) ==
    {w.ip : w \in {v \in running : matches_selector(v.labels, selector)}}

rule(tag, src, dst, port, target) ==
    [tag |-> tag, src |-> src, dst |-> dst, port |-> port, target |-> target]

\* An address range wins over a selector; neither means any source.
sources(r, running) ==
    IF r.cidr # {} THEN UNION r.cidr
    ELSE IF r.from # {} THEN UNION {find_matching_ips(running, s) : s \in r.from}
    ELSE Ips

\* Variant: without the rule that drops the rest.
ingress_without_default(policy, ip, running) ==
    IF policy.ingress = <<>> THEN <<rule(policy.name, Ips, {ip}, {}, "DROP")>>
    ELSE [i \in DOMAIN policy.ingress |->
             rule(policy.name, sources(policy.ingress[i], running), {ip},
                  policy.ingress[i].port, "ACCEPT")]

ingress_rules(policy, ip, running) ==
    IF policy.ingress = <<>> THEN <<rule(policy.name, Ips, {ip}, {}, "DROP")>>
    ELSE [i \in DOMAIN policy.ingress |->
             rule(policy.name, sources(policy.ingress[i], running), {ip},
                  policy.ingress[i].port, "ACCEPT")]
         \o <<rule(Append(policy.name, "default-deny"), Ips, {ip}, {}, "DROP")>>

\* has_egress always holds, and egress rules that are given add nothing.
egress_rules(policy, ip) ==
    IF policy.egress = <<>> THEN <<rule(policy.name, {ip}, Ips, {}, "DROP")>> ELSE <<>>

apply_policy_rules(policy, running) ==
    LET targets == SetToSeq(find_matching_ips(running, policy.selector))
    IN  FlattenSeq([i \in DOMAIN targets |-> ingress_rules(policy, targets[i], running)
                                             \o egress_rules(policy, targets[i])])

has_policy(engine, n) == \E k \in DOMAIN engine : engine[k].name = n

\* The command gives add_policy no workloads, so it adds no rule.
add_policy(engine, policy) ==
    IF has_policy(engine, policy.name) THEN engine ELSE Append(engine, compile_policy(policy))

remove_policy(engine, n) == SelectSeq(engine, LAMBDA q : q.name # n)

\* The rules whose listed comment contains the policy's.
remove_policy_rules(chain, n) == SelectSeq(chain, LAMBDA r : ~IsPrefix(n, r.tag))

refresh_all(running) ==
    /\ sd.on
    /\ filter' = FlattenSeq([k \in DOMAIN pe |-> apply_policy_rules(pe[k], running)])
    /\ enforced' = {running}
    /\ respond(NoReply) /\ UNCHANGED <<live_vars, nat, sent>>

-----------------------------------------------------------------------------
(* The commands *)

\* The store first and then the live state, which a process that dies loses.
finish(p, writes, answer, sd_next, pe_next, filter_next) ==
    \/ /\ save(p, writes, answer) \/ save_fails(p, writes, answer)
       /\ IF p = "daemon" /\ sd.on
          THEN sd' = sd_next /\ pe' = pe_next /\ filter' = filter_next
          ELSE UNCHANGED <<sd, pe, filter>>
       /\ enforced' = IF pe' = pe THEN enforced ELSE {}
       /\ UNCHANGED <<routes, nat, sent>>
    \/ /\ dies(p, writes)
       /\ IF p = "daemon" THEN booted ELSE UNCHANGED network_vars

refuse(c) == respond(Err(c)) /\ UNCHANGED network_vars

ServiceStore_create(p, s, n, entry) == write(s, Put(view(p)[s], n, entry))
ServiceStore_delete(p, s, n) == write(s, Drop(view(p)[s], n))

service_create(p, n, selector) ==
    IF n \in DOMAIN view(p).services THEN refuse("service.create")
    ELSE finish(p, ServiceStore_create(p, "services", n, [selector |-> selector]),
                Ok("service.create", IF p = "daemon" /\ sd.on THEN allocate_vip(sd) ELSE {}),
                register_service(sd, n, selector), pe, filter)

\* Variant: service discovery keeps the service.
service_delete_store_only(p, n) ==
    IF n \notin DOMAIN view(p).services THEN refuse("service.delete")
    ELSE finish(p, ServiceStore_delete(p, "services", n), Ok("service.delete", n), sd, pe, filter)

service_delete(p, n) ==
    IF n \notin DOMAIN view(p).services THEN refuse("service.delete")
    ELSE finish(p, ServiceStore_delete(p, "services", n), Ok("service.delete", n),
                remove_service(sd, n), pe, filter)

cluster_ip(p, n) ==
    IF p = "daemon" /\ n \in DOMAIN sd.services THEN {sd.services[n].cluster_ip} ELSE {}

get_endpoints(p, n) ==
    IF p = "daemon" /\ n \in DOMAIN sd.services THEN sd.services[n].endpoints ELSE <<>>

service_get(p, n) ==
    fetch(p, "services", n, "service.get",
          [entry |-> view(p).services[n], clusterIp |-> cluster_ip(p, n), live |-> get_endpoints(p, n)])
    /\ UNCHANGED network_vars

service_list(p) ==
    respond(Ok("service.list", [n \in DOMAIN view(p).services |-> cluster_ip(p, n)]))
    /\ UNCHANGED network_vars

service_endpoints(p, n) ==
    IF cluster_ip(p, n) = {} THEN refuse("service.endpoints")
    ELSE /\ respond(Ok("service.endpoints", [clusterIp |-> cluster_ip(p, n),
                                             total |-> Len(get_endpoints(p, n)),
                                             healthy |-> Len(healthy(get_endpoints(p, n)))]))
         /\ UNCHANGED network_vars

ingress_create(p, i) ==
    IF i.name \in DOMAIN view(p).ingresses THEN refuse("ingress.create")
    ELSE finish(p, ServiceStore_create(p, "ingresses", i.name, i), Ok("ingress.create", i.name),
                sd, pe, filter)

ingress_delete(p, n) ==
    IF n \notin DOMAIN view(p).ingresses THEN refuse("ingress.delete")
    ELSE finish(p, ServiceStore_delete(p, "ingresses", n), Ok("ingress.delete", n), sd, pe, filter)

\* The mesh's part of the answer is in NodeMesh.
network_status(p) ==
    /\ respond(Ok("network.status", IF p = "daemon" /\ sd.on THEN DOMAIN sd.services ELSE {}))
    /\ UNCHANGED network_vars

\* The engine may refuse a policy that the store has accepted; the entry stays.
network_policy_create(p, policy) ==
    IF policy.name \in DOMAIN view(p).network_policies THEN refuse("network.policy.create")
    ELSE finish(p, ServiceStore_create(p, "network_policies", policy.name, policy),
                IF p = "daemon" /\ has_policy(pe, policy.name) THEN Err("network.policy.create")
                ELSE Ok("network.policy.create", policy.name),
                sd, add_policy(pe, policy), filter)

network_policy_delete(p, n) ==
    IF n \notin DOMAIN view(p).network_policies THEN refuse("network.policy.delete")
    ELSE finish(p, ServiceStore_delete(p, "network_policies", n), Ok("network.policy.delete", n),
                sd, remove_policy(pe, n),
                IF has_policy(pe, n) THEN remove_policy_rules(filter, n) ELSE filter)

network_policy_list(p) ==
    /\ respond(Ok("network.policy.list", [stored |-> DOMAIN view(p).network_policies,
                                          active |-> IF p = "daemon" THEN Len(pe) ELSE 0]))
    /\ UNCHANGED network_vars

-----------------------------------------------------------------------------
(* The ingress proxy *)

\* One route for every rule whose service is known.
routes_of(i, service_ips) ==
    LET kept == SelectSeq(i.rules, LAMBDA r : r.service \in DOMAIN service_ips)
    IN  [k \in DOMAIN kept |-> [host |-> kept[k].host, path_prefix |-> kept[k].path,
                                backend_addr |-> service_ips[kept[k].service],
                                ingress_name |-> i.name]]

build_route_table ==
    LET entries == SetToSeq({mem.ingresses[n] : n \in DOMAIN mem.ingresses})
        service_ips == [n \in DOMAIN sd.services |-> sd.services[n].cluster_ip]
    IN  /\ sd.on
        /\ routes' = FlattenSeq([k \in DOMAIN entries |-> routes_of(entries[k], service_ips)])
        /\ respond(NoReply) /\ UNCHANGED <<sd, pe, kernel_vars, history_vars>>

matching(req) == {k \in DOMAIN routes : /\ routes[k].host = req.host
                                        /\ IsPrefix(routes[k].path_prefix, req.path)}

\* The last of the longest prefixes; the backend may be down.
handle_request(req) ==
    LET best == {k \in matching(req) : \A j \in matching(req) :
                    Len(routes[j].path_prefix) < Len(routes[k].path_prefix)
                    \/ (Len(routes[j].path_prefix) = Len(routes[k].path_prefix) /\ j <= k)}
    IN  /\ sd.on
        /\ \/ best = {} /\ respond(Ok("http", 404))
           \/ \E k \in best : \/ respond(Ok("http", routes[k].backend_addr))
                              \/ respond(Ok("http", 502))
        /\ UNCHANGED network_vars

-----------------------------------------------------------------------------
handle_network_command(p) ==
    \/ \E n \in ServiceNames :
          \/ \E s \in Selectors : service_create(p, n, s)
          \/ service_get(p, n) \/ service_delete(p, n) \/ service_endpoints(p, n)
    \/ \E i \in Ingresses : ingress_create(p, i) \/ ingress_delete(p, i.name)
    \/ \E q \in Policies : network_policy_create(p, q) \/ network_policy_delete(p, q.name)
    \/ service_list(p) \/ network_status(p) \/ network_policy_list(p)

embedder ==
    \/ \E n \in ServiceNames, es \in {<<>>} \cup {<<e>> : e \in Endpoint} : update_endpoints(n, es)
    \/ \E running \in SUBSET Workloads : refresh_all_endpoints(running) \/ refresh_all(running)
    \/ build_route_table

Next == \/ \E p \in Procs : handle_network_command(p)
        \/ embedder
        \/ \E vip \in 1 .. LastVip : connect(vip)
        \/ \E req \in Requests : handle_request(req)
        \/ restart /\ booted

Spec == Init /\ [][Next]_vars

-----------------------------------------------------------------------------
\* Service discovery follows the store: a service has a ClusterIP, and a policy is
\* enforced, only while it is stored; the ClusterIPs differ, and the reverse lookup
\* names each one's service.
DiscoveryFollowsStore ==
    /\ DOMAIN sd.services \subseteq DOMAIN mem.services
    /\ \A k \in DOMAIN pe : pe[k].name \in DOMAIN mem.network_policies
    /\ \A n \in DOMAIN sd.services : /\ sd.services[n].cluster_ip \in DOMAIN sd.vip_to_service
                                     /\ sd.vip_to_service[sd.services[n].cluster_ip] = n
    /\ Cardinality(DOMAIN sd.vip_to_service) = Cardinality(DOMAIN sd.services)

\* The rules written for a VIP share its connections evenly: as long as they are the
\* only ones for it, two backends never differ by more than one connection.
SharesEvenly ==
    \A n \in DOMAIN sd.services :
       LET vip == sd.services[n].cluster_ip
           own == SelectSeq(nat, LAMBDA r : r.vip = vip)
           backends == [i \in DOMAIN own |-> own[i].to]
           share(b) == Cardinality({i \in DOMAIN sent[vip] : sent[vip][i] = b})
       IN  (vip \in DOMAIN sent /\ backends = healthy(sd.services[n].endpoints))
           => \A j, k \in DOMAIN own : share(own[j].to) <= share(own[k].to) + 1

\* A workload that a policy selects gets nothing that no policy selecting it allows:
\* after refresh_all the first rule that matches such a packet drops it.
allows(policy, src, port, running) ==
    \E k \in DOMAIN policy.ingress : /\ src \in sources(policy.ingress[k], running)
                                     /\ policy.ingress[k].port \in {{}, {port}}

verdict(src, dst, port) ==
    LET hits == {k \in DOMAIN filter : /\ src \in filter[k].src /\ dst \in filter[k].dst
                                       /\ filter[k].port \in {{}, {port}}}
    IN  IF hits = {} THEN "NONE"
        ELSE filter[CHOOSE k \in hits : \A j \in hits : k <= j].target

DefaultDeny ==
    \A running \in enforced, src \in Ips, port \in Ports :
       \A w \in running :
          LET selecting == {k \in DOMAIN pe : matches_selector(w.labels, pe[k].selector)}
          IN  (selecting # {} /\ \A k \in selecting : ~allows(pe[k], src, port, running))
              => verdict(src, w.ip, port) = "DROP"

\* "Empty egress = deny all outbound" (netpolicy.rs): what a workload sends is dropped
\* when a policy without egress rules selects it.
EgressDenied ==
    \A w \in UNION enforced, dst \in Ips, port \in Ports :
       (\E k \in DOMAIN pe : pe[k].egress = <<>> /\ matches_selector(w.labels, pe[k].selector))
       => verdict(w.ip, dst, port) = "DROP"

\* "Remove all iptables rules tagged with a specific policy name" (netpolicy.rs), and
\* no others: deleting a policy leaves the rules of the policies that stay.
RemovesOwnRules ==
    [][\A k \in DOMAIN filter :
          (Len(pe') < Len(pe) /\ has_policy(pe', filter[k].tag))
          => \E j \in DOMAIN filter' : filter'[j] = filter[k]]_vars

\* "Update endpoints for a service and rewrite DNAT rules" (service_discovery.rs): the
\* rules of a service's VIP lead to its healthy endpoints and nowhere else.
RulesFollowEndpoints ==
    \A n \in DOMAIN sd.services :
       {nat[k].to : k \in {j \in DOMAIN nat : nat[j].vip = sd.services[n].cluster_ip}}
       = ToSet(healthy(sd.services[n].endpoints))
=============================================================================
