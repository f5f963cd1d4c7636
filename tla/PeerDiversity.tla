--------------------------- MODULE PeerDiversity ---------------------------
(***************************************************************************)
(* The diversity tracker by itself, crates/molt-p2p/src/diversity.rs: its  *)
(* configurations, which may be replaced and switched off while peers are  *)
(* tracked, its counts per subnet, prefix, AS and region, and the          *)
(* statistics it gives of them.  Addresses are real ones: four octets, or  *)
(* eight segments of 16 bits.                                              *)
(***************************************************************************)
EXTENDS Naturals, Sequences, FiniteSets, FiniteSetsExt, Bags

CONSTANTS Addresses, Asns, Regions,
          Configs,       \* the configurations that may be set
          Shared,        \* whether an address may be added while it is tracked
          MaxPeers       \* bounds the peers counted

VARIABLES config,
          subnets, prefixes, asns, regions,   \* counts; a count of 0 is no entry
          tracked_peers,                      \* [ip -> [asn, region]]
          tightened      \* history: the configuration set last was passed already

vars == <<config, subnets, prefixes, asns, regions, tracked_peers, tightened>>

-----------------------------------------------------------------------------
DefaultConfig == [max_per_ipv4_subnet |-> 2, max_per_ipv6_prefix |-> 2, max_per_asn |-> 5,
                  allow_private_ips |-> TRUE, enabled |-> TRUE]
strict == [max_per_ipv4_subnet |-> 1, max_per_ipv6_prefix |-> 1, max_per_asn |-> 3,
           allow_private_ips |-> FALSE, enabled |-> TRUE]
permissive == [max_per_ipv4_subnet |-> 10, max_per_ipv6_prefix |-> 10, max_per_asn |-> 20,
               allow_private_ips |-> TRUE, enabled |-> TRUE]
disabled == [DefaultConfig EXCEPT !.enabled = FALSE]
with_max_per_asn(c, n) == [c EXCEPT !.max_per_asn = n]

v4(ip) == Len(ip) = 4

\* /24 of an IPv4 address; /48 of an IPv6 address, as bytes.
Ipv4Subnet(ip) == SubSeq(ip, 1, 3)
Ipv6Prefix(ip) == <<ip[1] \div 256, ip[1] % 256, ip[2] \div 256, ip[2] % 256,
                    ip[3] \div 256, ip[3] % 256>>

is_private_ip(ip) ==
    IF v4(ip)
      THEN \/ ip[1] \in {10, 127}                           \* private, loopback
           \/ ip[1] = 172 /\ ip[2] \in 16..31
           \/ ip[1] = 192 /\ ip[2] = 168
           \/ ip[1] = 169 /\ ip[2] = 254                    \* link local
           \/ ip \in {<<255, 255, 255, 255>>, <<0, 0, 0, 0>>}
      ELSE SubSeq(ip, 1, 7) = <<0, 0, 0, 0, 0, 0, 0>> /\ ip[8] <= 1   \* loopback, unspecified

in_subnet(ip) == IF v4(ip) THEN SetToBag({Ipv4Subnet(ip)}) ELSE EmptyBag
in_prefix(ip) == IF v4(ip) THEN EmptyBag ELSE SetToBag({Ipv6Prefix(ip)})

-----------------------------------------------------------------------------
\* Variant: max_per_asn of 0 is a limit of none, and the limit itself is let through.
check_up_to(ip, asn) ==
    /\ config.allow_private_ips \/ ~is_private_ip(ip)
    /\ v4(ip) => CopiesIn(Ipv4Subnet(ip), subnets) <= config.max_per_ipv4_subnet
    /\ ~v4(ip) => CopiesIn(Ipv6Prefix(ip), prefixes) <= config.max_per_ipv6_prefix
    /\ \A a \in asn : CopiesIn(a, asns) < config.max_per_asn

check(ip, asn) ==
    /\ config.allow_private_ips \/ ~is_private_ip(ip)
    /\ v4(ip) => CopiesIn(Ipv4Subnet(ip), subnets) < config.max_per_ipv4_subnet
    /\ ~v4(ip) => CopiesIn(Ipv6Prefix(ip), prefixes) < config.max_per_ipv6_prefix
    /\ config.max_per_asn > 0 => \A a \in asn : CopiesIn(a, asns) < config.max_per_asn

Init == /\ config \in Configs
        /\ subnets = EmptyBag /\ prefixes = EmptyBag /\ asns = EmptyBag /\ regions = EmptyBag
        /\ tracked_peers = <<>>
        /\ tightened = FALSE

\* check_and_add, and add_unchecked after a check: a disabled tracker accepts and keeps nothing.
check_and_add(ip, asn, region) ==
    /\ config.enabled /\ check(ip, asn)
    /\ Shared \/ ip \notin DOMAIN tracked_peers
    /\ BagCardinality(subnets) + BagCardinality(prefixes) < MaxPeers
    /\ subnets' = subnets (+) in_subnet(ip) /\ prefixes' = prefixes (+) in_prefix(ip)
    /\ asns' = asns (+) SetToBag(asn) /\ regions' = regions (+) SetToBag(region)
    /\ tracked_peers' = [i \in DOMAIN tracked_peers \cup {ip} |->
                            IF i = ip THEN [asn |-> asn, region |-> region] ELSE tracked_peers[i]]
    /\ UNCHANGED <<config, tightened>>

\* Each count goes down by one, and its entry goes with the last.
remove(ip) ==
    /\ ip \in DOMAIN tracked_peers
    /\ subnets' = subnets (-) in_subnet(ip) /\ prefixes' = prefixes (-) in_prefix(ip)
    /\ asns' = asns (-) SetToBag(tracked_peers[ip].asn)
    /\ regions' = regions (-) SetToBag(tracked_peers[ip].region)
    /\ tracked_peers' = [i \in DOMAIN tracked_peers \ {ip} |-> tracked_peers[i]]
    /\ UNCHANGED <<config, tightened>>

clear == /\ subnets' = EmptyBag /\ prefixes' = EmptyBag /\ asns' = EmptyBag /\ regions' = EmptyBag
         /\ tracked_peers' = <<>> /\ UNCHANGED <<config, tightened>>

most(counts) == Max({CopiesIn(x, counts) : x \in DOMAIN counts} \cup {0})

stats == [total_peers |-> Cardinality(DOMAIN tracked_peers),
          distinct_subnets |-> Cardinality(DOMAIN subnets),
          distinct_asns |-> Cardinality(DOMAIN asns),
          max_peers_per_subnet |-> most(subnets),
          max_peers_per_prefix |-> most(prefixes),
          max_peers_per_asn |-> most(asns)]

is_healthy(c) ==
    /\ stats.max_peers_per_subnet <= c.max_per_ipv4_subnet
    /\ stats.max_peers_per_prefix <= c.max_per_ipv6_prefix
    /\ c.max_per_asn = 0 \/ stats.max_peers_per_asn <= c.max_per_asn

set_config(c) == /\ config' = c /\ tightened' = ~is_healthy(c)
                 /\ UNCHANGED <<subnets, prefixes, asns, regions, tracked_peers>>

Next == \/ \E ip \in Addresses, asn \in {{}} \cup {{a} : a \in Asns},
              region \in {{}} \cup {{r} : r \in Regions} : check_and_add(ip, asn, region)
        \/ \E ip \in Addresses : remove(ip)
        \/ clear
        \/ \E c \in Configs : set_config(c)

Spec == Init /\ [][Next]_vars

-----------------------------------------------------------------------------
\* The counts are bags and the tracked peers addresses.
TypeOK == /\ config \in Configs /\ tightened \in BOOLEAN
          /\ DOMAIN tracked_peers \subseteq Addresses
          /\ IsABag(subnets) /\ IsABag(prefixes) /\ IsABag(asns) /\ IsABag(regions)

\* diversity_score times twice the number of peers; 1.0 where there are none.
diversity_score == IF stats.total_peers = 0 THEN <<1, 1>>
                   ELSE <<stats.distinct_subnets + (IF stats.distinct_asns > 0
                                                      THEN stats.distinct_asns
                                                      ELSE stats.total_peers),
                          2 * stats.total_peers>>

count(S, in(_)) == LET sum[T \in SUBSET S] == IF T = {} THEN EmptyBag
                                             ELSE LET x == CHOOSE x \in T : TRUE
                                                  IN  in(x) (+) sum[T \ {x}]
                   IN  sum[S]

\* Whatever is added, removed and cleared, and whichever configurations are set or
\* switched off in between, the tracker goes past no limit that it had not passed when
\* the limit was set (is_healthy); and as long as every peer has an address of its own
\* the counts are those of the tracked peers and diversity_score is at most 1.
DiversityHolds ==
    /\ tightened \/ is_healthy(config)
    /\ ~Shared => /\ subnets = count(DOMAIN tracked_peers, in_subnet)
                  /\ prefixes = count(DOMAIN tracked_peers, in_prefix)
                  /\ asns = count(DOMAIN tracked_peers, LAMBDA ip : SetToBag(tracked_peers[ip].asn))
                  /\ diversity_score[1] <= diversity_score[2]
=============================================================================
