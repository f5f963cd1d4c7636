----------------------------- MODULE PeerProofs -----------------------------
(***************************************************************************)
(* Proofs about a peer in its network: the limits of its connection pool,  *)
(* the addresses of its job tunnels, the discovery of its own address, the *)
(* messages it gossips and the links it has.                               *)
(***************************************************************************)
EXTENDS Gossip, PeerPool, JobTunnels, NatTraversal, PeerConnections, FiniteSetTheorems,
        SequenceTheorems, TLAPS

-----------------------------------------------------------------------------
(***************************************************************************)
(* No subnet has more connections in the pool than its limit, for every    *)
(* set of peers, addresses and subnets and every order of operations, also *)
(* when several peers share an address.                                    *)
(***************************************************************************)

(***************************************************************************)
(* The strengthening: the tracker counts at least the connections that the *)
(* pool has in a subnet.  It may count more, because it forgets an address *)
(* once for all the peers that share it.                                   *)
(***************************************************************************)
PoolShape == /\ connections \subseteq Attempts /\ IsFiniteSet(connections)
             /\ tracker.subnet \in [Subnets -> Nat]

Counted == \A s \in Subnets : Cardinality(InSubnet(s)) <= tracker.subnet[s]

PoolInv == PoolShape /\ Counted /\ SubnetLimitHolds

\* A set with one element more.
LEMMA AddedOne ==
    ASSUME NEW S, IsFiniteSet(S), NEW x
    PROVE  /\ IsFiniteSet(S \cup {x}) /\ Cardinality(S \cup {x}) \in Nat
           /\ Cardinality(S \cup {x}) <= Cardinality(S) + 1
           /\ x \notin S => Cardinality(S \cup {x}) = Cardinality(S) + 1
<1>1. IsFiniteSet(S \cup {x}) /\ Cardinality(S) \in Nat /\ Cardinality(S \cup {x}) \in Nat
  BY FS_AddElement, FS_CardinalityType
<1> QED BY <1>1, FS_AddElement

\* The connections of a subnet can be counted.
LEMMA SubnetFinite ==
    ASSUME PoolShape, NEW s \in Subnets
    PROVE  IsFiniteSet(InSubnet(s)) /\ Cardinality(InSubnet(s)) \in Nat
BY FS_Subset, FS_CardinalityType DEF PoolShape, InSubnet

\* An empty pool is within every limit.
LEMMA PoolInitInv == PoolInit => PoolInv
<1> SUFFICES ASSUME PoolInit PROVE PoolInv
  OBVIOUS
<1>1. \A s \in Subnets : InSubnet(s) = {}
  BY DEF PoolInit, InSubnet
<1>2. \A s \in Subnets : Cardinality(InSubnet(s)) = 0
  BY <1>1, FS_EmptySet
<1>3. tracker.subnet = [s \in Subnets |-> 0] /\ connections = {}
  BY DEF PoolInit
<1>4. PoolShape
  BY <1>3, FS_EmptySet DEF PoolShape
<1>5. Counted /\ SubnetLimitHolds
  BY <1>2, <1>3, PoolAssumption DEF Counted, SubnetLimitHolds
<1> QED BY <1>4, <1>5 DEF PoolInv

\* add_connection: the subnet of the address gains one, within its limit.
LEMMA AddConnection ==
    ASSUME PoolInv, NEW c \in Attempts, add_connection(c)
    PROVE  PoolInv'
<1> DEFINE s0 == SubnetOf[c.ip]
<1>1. s0 \in Subnets /\ connections' = connections \cup {c} /\ tracker.subnet[s0] < SubnetLimit[s0]
  BY PoolAssumption DEF add_connection, check
<1>2. tracker'.subnet = [tracker.subnet EXCEPT ![s0] = @ + 1]
  BY DEF add_connection, add_peer_internal
<1> HIDE DEF s0
<1>3. PoolShape'
  BY <1>1, <1>2, FS_AddElement DEF PoolInv, PoolShape
<1>4. ASSUME NEW s \in Subnets
      PROVE  /\ Cardinality(InSubnet(s)') <= tracker'.subnet[s]
             /\ Cardinality(InSubnet(s)') <= SubnetLimit[s]
  <2>1. /\ IsFiniteSet(InSubnet(s)) /\ Cardinality(InSubnet(s)) \in Nat
        /\ Cardinality(InSubnet(s)) <= tracker.subnet[s] /\ tracker.subnet[s] \in Nat
        /\ Cardinality(InSubnet(s)) <= SubnetLimit[s] /\ SubnetLimit[s] \in Nat
    BY SubnetFinite, PoolAssumption DEF PoolInv, Counted, SubnetLimitHolds, PoolShape
  <2>2. CASE s = s0
    <3>1. InSubnet(s)' = InSubnet(s) \cup {c}
      BY <1>1, <2>2 DEF InSubnet, s0
    <3>2. /\ Cardinality(InSubnet(s)') <= Cardinality(InSubnet(s)) + 1
          /\ Cardinality(InSubnet(s)') \in Nat
      BY <2>1, <3>1, AddedOne
    <3>3. tracker'.subnet[s] = tracker.subnet[s] + 1 /\ tracker.subnet[s] < SubnetLimit[s]
      BY <1>1, <1>2, <2>2 DEF PoolInv, PoolShape
    <3> QED BY <2>1, <3>2, <3>3
  <2>3. CASE s # s0
    <3>1. InSubnet(s)' = InSubnet(s)
      BY <1>1, <2>3 DEF InSubnet, s0
    <3>2. tracker'.subnet[s] = tracker.subnet[s]
      BY <1>2, <2>3 DEF PoolInv, PoolShape
    <3> QED BY <2>1, <3>1, <3>2
  <2> QED BY <2>2, <2>3
<1> QED BY <1>3, <1>4 DEF PoolInv, Counted, SubnetLimitHolds

\* The addresses that forget untracks in a subnet are no more than the connections that
\* leave it.
LEMMA Untracked ==
    ASSUME NEW gone, IsFiniteSet(gone), NEW ips, ips \subseteq {c.ip : c \in gone}
    PROVE  IsFiniteSet(ips) /\ Cardinality(ips) <= Cardinality(gone)
<1> DEFINE image == {c.ip : c \in gone}
           f == [c \in gone |-> c.ip]
<1>1. f \in Surjection(gone, image)
  BY DEF Surjection
<1>2. IsFiniteSet(image) /\ Cardinality(image) <= Cardinality(gone)
  BY <1>1, FS_Surjection
<1>3. IsFiniteSet(ips) /\ Cardinality(ips) <= Cardinality(image)
  BY <1>2, FS_Subset
<1>4. Cardinality(ips) \in Nat /\ Cardinality(image) \in Nat /\ Cardinality(gone) \in Nat
  BY <1>2, <1>3, FS_CardinalityType
<1> QED BY <1>2, <1>3, <1>4

\* remove and cleanup_terminal: a subnet loses at least as many connections as the
\* tracker takes off its count.
LEMMA Forget ==
    ASSUME PoolInv, NEW cs \in SUBSET connections, forget(cs)
    PROVE  PoolInv'
<1> DEFINE listed == {ip \in {c.ip : c \in cs} : tracker.tracked[ip] # {}}
           off(s) == {ip \in listed : SubnetOf[ip] = s}
           gone(s) == InSubnet(s) \cap cs
<1>1. connections' = connections \ cs
  BY DEF forget
<1>2. tracker'.subnet = [s \in Subnets |-> saturating_sub(tracker.subnet[s], Cardinality(off(s)))]
  BY DEF forget, untrack
<1>3. ASSUME NEW s \in Subnets
      PROVE  /\ IsFiniteSet(gone(s)) /\ Cardinality(gone(s)) \in Nat
             /\ Cardinality(off(s)) \in Nat /\ Cardinality(off(s)) <= Cardinality(gone(s))
  <2>1. IsFiniteSet(gone(s)) /\ Cardinality(gone(s)) \in Nat
    BY SubnetFinite, FS_Subset, FS_CardinalityType DEF PoolInv
  <2>2. off(s) \subseteq {c.ip : c \in gone(s)}
    BY DEF InSubnet
  <2> HIDE DEF off, gone
  <2> QED BY <2>1, <2>2, Untracked, FS_CardinalityType
<1>4. PoolShape'
  <2>1. IsFiniteSet(connections')
    BY <1>1, FS_Subset DEF PoolInv, PoolShape
  <2> HIDE DEF off
  <2>2. ASSUME NEW s \in Subnets
        PROVE  saturating_sub(tracker.subnet[s], Cardinality(off(s))) \in Nat
    <3>1. tracker.subnet[s] \in Nat /\ Cardinality(off(s)) \in Nat
      BY <1>3, Zenon DEF PoolInv, PoolShape
    <3> QED BY <3>1 DEF saturating_sub
  <2>3. tracker'.subnet \in [Subnets -> Nat]
    BY <1>2, <2>2
  <2> QED BY <1>1, <2>1, <2>3 DEF PoolInv, PoolShape
<1>5. ASSUME NEW s \in Subnets
      PROVE  /\ Cardinality(InSubnet(s)') <= tracker'.subnet[s]
             /\ Cardinality(InSubnet(s)') <= SubnetLimit[s]
  <2>1. /\ IsFiniteSet(InSubnet(s)) /\ Cardinality(InSubnet(s)) \in Nat
        /\ Cardinality(InSubnet(s)) <= tracker.subnet[s] /\ tracker.subnet[s] \in Nat
        /\ Cardinality(InSubnet(s)) <= SubnetLimit[s] /\ SubnetLimit[s] \in Nat
    BY SubnetFinite, PoolAssumption DEF PoolInv, Counted, SubnetLimitHolds, PoolShape
  <2>2. InSubnet(s)' = InSubnet(s) \ cs
    BY <1>1 DEF InSubnet
  <2>3. Cardinality(InSubnet(s) \ cs) = Cardinality(InSubnet(s)) - Cardinality(gone(s))
    BY <2>1, FS_Difference, Zenon
  <2>4. Cardinality(InSubnet(s) \ cs) \in Nat
    BY <2>1, FS_Difference, FS_CardinalityType, Zenon
  <2>5. tracker'.subnet[s] = saturating_sub(tracker.subnet[s], Cardinality(off(s)))
    BY <1>2
  <2> HIDE DEF off, gone
  <2> QED BY <1>3, <2>1, <2>2, <2>3, <2>4, <2>5 DEF saturating_sub
<1> QED BY <1>4, <1>5 DEF PoolInv, Counted, SubnetLimitHolds

\* Every operation of the pool keeps the invariant.
LEMMA PoolNextInv == PoolInv /\ [PoolNext]_pool_vars => PoolInv'
<1> SUFFICES ASSUME PoolInv, [PoolNext]_pool_vars PROVE PoolInv'
  OBVIOUS
<1>1. ASSUME UNCHANGED <<connections, tracker>> PROVE PoolInv'
  BY <1>1 DEF PoolInv, PoolShape, Counted, SubnetLimitHolds, InSubnet
<1>2. ASSUME NEW c \in connections, remove(c) PROVE PoolInv'
  <2>1. {c} \in SUBSET connections
    OBVIOUS
  <2> QED BY <1>2, <2>1, Forget DEF remove
<1>3. ASSUME cleanup_terminal PROVE PoolInv'
  <2>1. terminal \in SUBSET connections
    BY DEF terminal
  <2> QED BY <1>3, <2>1, Forget DEF cleanup_terminal
<1> QED BY <1>1, <1>2, <1>3, AddConnection DEF PoolNext, mark, pool_vars

(***************************************************************************)
(* When every peer has an address of its own, the tracker knows exactly    *)
(* the addresses of the pool, each with the asn of its one connection.     *)
(* That is why what it takes off its counts is what leaves the pool.       *)
(***************************************************************************)
OnePerPeer == \A c, d \in connections : c.peer = d.peer => c = d

TrackedIsPool == /\ tracker.tracked \in [Ips -> SUBSET SUBSET Asns]
                 /\ \A c \in connections : tracker.tracked[c.ip] = {c.asn}

OwnInv == OnePerPeer /\ TrackedIsPool /\ CountsMatchPool /\ AsnLimitHolds

\* The connections of an AS can be counted.
LEMMA AsnFinite ==
    ASSUME PoolShape, NEW a \in Asns
    PROVE  IsFiniteSet(InAsn(a)) /\ Cardinality(InAsn(a)) \in Nat
BY FS_Subset, FS_CardinalityType DEF PoolShape, InAsn

\* With no connection every count is zero.
LEMMA OwnInit == PoolInit => OwnInv
<1> SUFFICES ASSUME PoolInit PROVE OwnInv
  OBVIOUS
<1>1. /\ connections = {} /\ tracker.subnet = [s \in Subnets |-> 0]
      /\ tracker.asn = [a \in Asns |-> 0] /\ tracker.tracked = [ip \in Ips |-> {}]
  BY DEF PoolInit
<1>2. /\ \A s \in Subnets : InSubnet(s) = {}
      /\ \A a \in Asns : InAsn(a) = {}
  BY <1>1 DEF InSubnet, InAsn
<1>3. CountsMatchPool
  <2>1. Cardinality({}) = 0
    BY FS_EmptySet
  <2> QED BY <1>1, <1>2, <2>1 DEF CountsMatchPool
<1>4. AsnLimitHolds
  BY <1>2, FS_EmptySet, PoolAssumption DEF AsnLimitHolds
<1> QED BY <1>1, <1>3, <1>4 DEF OwnInv, OnePerPeer, TrackedIsPool

\* add_connection: the address is new to the tracker, and the subnet and the AS of the
\* connection gain one.
LEMMA AddOwn ==
    ASSUME OwnAddresses, PoolInv, OwnInv, NEW c \in Attempts, add_connection(c)
    PROVE  OwnInv'
<1>1. /\ connections' = connections \cup {c} /\ \A d \in connections : d.peer # c.peer
      /\ check(c.ip, c.asn) /\ tracker' = add_peer_internal(tracker, c.ip, c.asn)
  BY DEF add_connection
<1>2. /\ c \notin connections /\ \A d \in connections : d \in Attempts /\ d.ip \in Ips /\ d.ip # c.ip
      /\ c.ip \in Ips /\ c.asn \in SUBSET Asns /\ SubnetOf[c.ip] \in Subnets
  BY <1>1, PoolAssumption DEF OwnAddresses, PoolInv, PoolShape
<1>3. OnePerPeer'
  BY <1>1 DEF OwnInv, OnePerPeer
<1>4. tracker'.tracked = [tracker.tracked EXCEPT ![c.ip] = {c.asn}]
  BY <1>1 DEF add_peer_internal
<1>5. TrackedIsPool'
  BY <1>1, <1>2, <1>4 DEF OwnInv, TrackedIsPool
<1>6. ASSUME NEW s \in Subnets PROVE tracker'.subnet[s] = Cardinality(InSubnet(s)')
  <2>1. tracker'.subnet = [tracker.subnet EXCEPT ![SubnetOf[c.ip]] = @ + 1]
    BY <1>1 DEF add_peer_internal
  <2>2. /\ tracker.subnet \in [Subnets -> Nat] /\ tracker.subnet[s] = Cardinality(InSubnet(s))
        /\ IsFiniteSet(InSubnet(s))
    BY SubnetFinite DEF PoolInv, PoolShape, OwnInv, CountsMatchPool
  <2>3. CASE SubnetOf[c.ip] = s
    <3>1. InSubnet(s)' = InSubnet(s) \cup {c} /\ c \notin InSubnet(s)
      BY <1>1, <1>2, <2>3 DEF InSubnet
    <3>2. Cardinality(InSubnet(s)') = Cardinality(InSubnet(s)) + 1
      BY <2>2, <3>1, AddedOne
    <3> QED BY <2>1, <2>2, <2>3, <3>2
  <2>4. CASE SubnetOf[c.ip] # s
    <3>1. InSubnet(s)' = InSubnet(s)
      BY <1>1, <2>4 DEF InSubnet
    <3> QED BY <2>1, <2>2, <2>4, <3>1
  <2> QED BY <2>3, <2>4
<1>7. ASSUME NEW a \in Asns
      PROVE  /\ tracker'.asn[a] = Cardinality(InAsn(a)')
             /\ MaxPerAsn > 0 => Cardinality(InAsn(a)') <= MaxPerAsn
  <2>1. tracker'.asn[a] = IF a \in c.asn THEN tracker.asn[a] + 1 ELSE tracker.asn[a]
    BY <1>1 DEF add_peer_internal
  <2>2. /\ tracker.asn[a] = Cardinality(InAsn(a)) /\ Cardinality(InAsn(a)) \in Nat
        /\ IsFiniteSet(InAsn(a)) /\ MaxPerAsn \in Nat
        /\ MaxPerAsn > 0 => Cardinality(InAsn(a)) <= MaxPerAsn
    BY AsnFinite, PoolAssumption DEF PoolInv, OwnInv, CountsMatchPool, AsnLimitHolds
  <2>3. CASE a \in c.asn
    <3>1. InAsn(a)' = InAsn(a) \cup {c} /\ c \notin InAsn(a)
      BY <1>1, <1>2, <2>3 DEF InAsn
    <3>2. Cardinality(InAsn(a)') = Cardinality(InAsn(a)) + 1
      BY <2>2, <3>1, AddedOne
    <3>3. MaxPerAsn > 0 => tracker.asn[a] < MaxPerAsn
      BY <1>1, <2>3 DEF check
    <3> QED BY <2>1, <2>2, <2>3, <3>2, <3>3
  <2>4. CASE a \notin c.asn
    <3>1. InAsn(a)' = InAsn(a)
      BY <1>1, <2>4 DEF InAsn
    <3> QED BY <2>1, <2>2, <2>4, <3>1
  <2> QED BY <2>3, <2>4
<1>8. CountsMatchPool' /\ AsnLimitHolds'
  BY <1>6, <1>7 DEF CountsMatchPool, AsnLimitHolds
<1> QED BY <1>3, <1>5, <1>8 DEF OwnInv

\* Connections with addresses of their own are as many as their addresses.
LEMMA AsManyAddresses ==
    ASSUME NEW gone, IsFiniteSet(gone), \A c, d \in gone : c.ip = d.ip => c = d,
           NEW off, off = {c.ip : c \in gone}
    PROVE  Cardinality(off) = Cardinality(gone)
<1> DEFINE f == [c \in gone |-> c.ip]
<1>1. f \in Bijection(gone, off)
  BY DEF Bijection, Injection, Surjection, IsInjective
<1> HIDE DEF f
<1>2. ExistsBijection(gone, off)
  BY <1>1 DEF ExistsBijection
<1> QED BY <1>2, FS_Bijection

\* What is left of a finite set is counted by what goes.
LEMMA Without ==
    ASSUME NEW S, IsFiniteSet(S), NEW T
    PROVE  /\ IsFiniteSet(S \cap T) /\ Cardinality(S \ T) \in Nat /\ Cardinality(S \cap T) \in Nat
           /\ Cardinality(S \ T) = Cardinality(S) - Cardinality(S \cap T)
           /\ Cardinality(S) \in Nat /\ Cardinality(S \ T) <= Cardinality(S)
           /\ saturating_sub(Cardinality(S), Cardinality(S \cap T)) = Cardinality(S \ T)
<1>1. IsFiniteSet(S \ T) /\ IsFiniteSet(S \cap T)
  BY FS_Subset
<1>2. /\ Cardinality(S \ T) \in Nat /\ Cardinality(S \cap T) \in Nat /\ Cardinality(S) \in Nat
  BY <1>1, FS_CardinalityType
<1>3. Cardinality(S \ T) = Cardinality(S) - Cardinality(S \cap T)
  BY FS_Difference, Zenon
<1> QED BY <1>1, <1>2, <1>3 DEF saturating_sub

\* remove and cleanup_terminal: the tracker takes one off for each connection that leaves.
LEMMA ForgetOwn ==
    ASSUME OwnAddresses, PoolInv, OwnInv, NEW cs \in SUBSET connections, forget(cs)
    PROVE  OwnInv'
<1> DEFINE listed == {ip \in {c.ip : c \in cs} : tracker.tracked[ip] # {}}
           off(s) == {ip \in listed : SubnetOf[ip] = s}
           off_asn(a) == {ip \in listed : {a} \in tracker.tracked[ip]}
<1>1. /\ connections' = connections \ cs
      /\ tracker'.subnet = [s \in Subnets |-> saturating_sub(tracker.subnet[s], Cardinality(off(s)))]
      /\ tracker'.asn = [a \in Asns |-> saturating_sub(tracker.asn[a], Cardinality(off_asn(a)))]
      /\ tracker'.tracked =
            [ip \in Ips |-> IF ip \in {c.ip : c \in cs} THEN {} ELSE tracker.tracked[ip]]
  BY DEF forget, untrack
<1>2. \A c, d \in connections : c.ip = d.ip => c = d
  BY DEF OwnAddresses, OwnInv, OnePerPeer, PoolInv, PoolShape
<1>3. \A c \in connections : /\ c.ip \in Ips /\ tracker.tracked[c.ip] = {c.asn}
                             /\ c.asn = {} \/ \E a \in Asns : c.asn = {a}
  BY PoolAssumption DEF OwnInv, TrackedIsPool, PoolInv, PoolShape
<1>4. OnePerPeer'
  BY <1>1 DEF OwnInv, OnePerPeer
<1>5. TrackedIsPool'
  <2>1. tracker'.tracked \in [Ips -> SUBSET SUBSET Asns]
    BY <1>1 DEF OwnInv, TrackedIsPool
  <2>2. ASSUME NEW c \in connections' PROVE tracker'.tracked[c.ip] = {c.asn}
    <3>1. c \in connections /\ c.ip \notin {d.ip : d \in cs}
      BY <1>1, <1>2
    <3> QED BY <1>1, <1>3, <3>1
  <2> QED BY <2>1, <2>2 DEF TrackedIsPool
<1>6. listed = {c.ip : c \in cs}
  BY <1>3
<1>7. ASSUME NEW s \in Subnets PROVE tracker'.subnet[s] = Cardinality(InSubnet(s)')
  <2>1. IsFiniteSet(InSubnet(s)) /\ tracker.subnet[s] = Cardinality(InSubnet(s))
    BY SubnetFinite DEF PoolInv, OwnInv, CountsMatchPool
  <2>2. InSubnet(s)' = InSubnet(s) \ cs
    BY <1>1 DEF InSubnet
  <2>3. off(s) = {c.ip : c \in InSubnet(s) \cap cs}
    BY <1>6 DEF InSubnet
  <2>4. \A c, d \in InSubnet(s) \cap cs : c.ip = d.ip => c = d
    BY <1>2 DEF InSubnet
  <2> HIDE DEF off
  <2>5. Cardinality(off(s)) = Cardinality(InSubnet(s) \cap cs)
    BY <2>1, <2>3, <2>4, Without, AsManyAddresses, Zenon
  <2>6. tracker'.subnet[s] =
           saturating_sub(Cardinality(InSubnet(s)), Cardinality(InSubnet(s) \cap cs))
    BY <1>1, <2>1, <2>5
  <2>7. saturating_sub(Cardinality(InSubnet(s)), Cardinality(InSubnet(s) \cap cs))
           = Cardinality(InSubnet(s) \ cs)
    BY <2>1, Without, Zenon
  <2> QED BY <2>2, <2>6, <2>7
<1>8. ASSUME NEW a \in Asns
      PROVE  /\ tracker'.asn[a] = Cardinality(InAsn(a)')
             /\ MaxPerAsn > 0 => Cardinality(InAsn(a)') <= MaxPerAsn
  <2>1. /\ IsFiniteSet(InAsn(a)) /\ tracker.asn[a] = Cardinality(InAsn(a)) /\ MaxPerAsn \in Nat
        /\ MaxPerAsn > 0 => Cardinality(InAsn(a)) <= MaxPerAsn
    BY AsnFinite, PoolAssumption DEF PoolInv, OwnInv, CountsMatchPool, AsnLimitHolds
  <2>2. InAsn(a)' = InAsn(a) \ cs
    BY <1>1 DEF InAsn
  <2>3. off_asn(a) = {c.ip : c \in InAsn(a) \cap cs}
    <3>1. ASSUME NEW c \in cs PROVE {a} \in tracker.tracked[c.ip] <=> a \in c.asn
      <4>1. tracker.tracked[c.ip] = {c.asn} /\ (c.asn = {} \/ \E b \in Asns : c.asn = {b})
        BY <1>3
      <4>2. a \in c.asn <=> c.asn = {a}
        BY <4>1
      <4> QED BY <4>1, <4>2
    <3>2. InAsn(a) \cap cs = {c \in cs : a \in c.asn}
      BY DEF InAsn
    <3>3. off_asn(a) = {ip \in {c.ip : c \in cs} : {a} \in tracker.tracked[ip]}
      BY <1>6
    <3> HIDE DEF off_asn
    <3> QED BY <3>1, <3>2, <3>3
  <2>4. \A c, d \in InAsn(a) \cap cs : c.ip = d.ip => c = d
    BY <1>2 DEF InAsn
  <2> HIDE DEF off_asn
  <2>5. Cardinality(off_asn(a)) = Cardinality(InAsn(a) \cap cs)
    BY <2>1, <2>3, <2>4, Without, AsManyAddresses, Zenon
  <2>6. tracker'.asn[a] = saturating_sub(Cardinality(InAsn(a)), Cardinality(InAsn(a) \cap cs))
    BY <1>1, <2>1, <2>5
  <2> QED BY <2>1, <2>2, <2>6, Without
<1>9. CountsMatchPool' /\ AsnLimitHolds'
  BY <1>7, <1>8 DEF CountsMatchPool, AsnLimitHolds
<1> QED BY <1>4, <1>5, <1>9 DEF OwnInv

\* Every operation of the pool keeps the counts exact.
LEMMA OwnNext ==
    ASSUME OwnAddresses PROVE PoolInv /\ OwnInv /\ [PoolNext]_pool_vars => OwnInv'
<1> SUFFICES ASSUME PoolInv, OwnInv, [PoolNext]_pool_vars PROVE OwnInv'
  OBVIOUS
<1>1. ASSUME UNCHANGED <<connections, tracker>> PROVE OwnInv'
  BY <1>1 DEF OwnInv, OnePerPeer, TrackedIsPool, CountsMatchPool, AsnLimitHolds, InSubnet, InAsn
<1>2. ASSUME NEW c \in connections, remove(c) PROVE OwnInv'
  <2>1. {c} \in SUBSET connections
    OBVIOUS
  <2> QED BY <1>2, <2>1, ForgetOwn DEF remove
<1>3. ASSUME cleanup_terminal PROVE OwnInv'
  <2>1. terminal \in SUBSET connections
    BY DEF terminal
  <2> QED BY <1>3, <2>1, ForgetOwn DEF cleanup_terminal
<1> QED BY <1>1, <1>2, <1>3, AddOwn DEF PoolNext, mark, pool_vars

\* ConnectionPool and PeerDiversityTracker: the pool never holds more connections of a
\* subnet than max_per_ipv4_subnet or max_per_ipv6_prefix allows, although the tracker
\* knows addresses and not peers; and when every peer has an address of its own, the
\* tracker's counts are the pool's and no AS has more than max_per_asn.
THEOREM PoolKeepsLimits == PoolSpec => []PoolLimitsHold
<1>1. PoolInv /\ (OwnAddresses => OwnInv) => PoolLimitsHold
  BY DEF PoolInv, OwnInv, PoolLimitsHold
<1>2. PoolInit => PoolInv /\ (OwnAddresses => OwnInv)
  BY PoolInitInv, OwnInit
<1>3. PoolInv /\ (OwnAddresses => OwnInv) /\ [PoolNext]_pool_vars
         => (PoolInv /\ (OwnAddresses => OwnInv))'
  BY PoolNextInv, OwnNext
<1> QED BY <1>1, <1>2, <1>3, PTL DEF PoolSpec

-----------------------------------------------------------------------------
(***************************************************************************)
(* No two jobs share a mesh address when each job is created once, for     *)
(* every set of jobs and providers and every interleaving of the calls.    *)
(***************************************************************************)

ips(j) == {t.ip : t \in tunnels[j]}

(***************************************************************************)
(* The strengthening: every address that is somewhere was taken from the   *)
(* allocator, a job's creation comes before its tunnel, and both have the  *)
(* address that the allocator has down for the job.                        *)
(***************************************************************************)
FunctionsOK == /\ tunnels \in [Jobs -> SUBSET [ip : Nat, state : TunnelState, bytes : Nat]]
               /\ allocated \in [Jobs -> SUBSET Nat] /\ creating \in [Jobs -> SUBSET Nat]
               /\ next \in Nat

Taken == \A j \in Jobs : \A ip \in creating[j] \cup ips(j) : ip < next /\ ip \in allocated[j]

OneAfterTheOther == \A j \in Jobs : /\ j \notin known => creating[j] = {} /\ tunnels[j] = {}
                                    /\ creating[j] = {} \/ tunnels[j] = {}

Apart == \A j, k \in Jobs : j # k =>
            (creating[j] \cup ips(j)) \cap (creating[k] \cup ips(k)) = {}

TunnelInv == FunctionsOK /\ Taken /\ OneAfterTheOther /\ Apart

\* What the invariant says of the two maps is what the property asks.
LEMMA InvSuffices == TunnelInv => TunnelsHoldAddresses
BY DEF TunnelInv, Taken, Apart, TunnelsHoldAddresses, ips

\* A new manager has no tunnel and no address.
LEMMA TunnelInitInv == TunnelInit => TunnelInv
BY DEF TunnelInit, TunnelInv, FunctionsOK, Taken, OneAfterTheOther, Apart, ips

\* A step after which each job uses addresses that it used before.
LEMMA NothingTaken ==
    ASSUME TunnelInv, FunctionsOK', next' = next, known' = known,
           \A j \in Jobs : /\ creating'[j] \cup ips(j)' \subseteq creating[j] \cup ips(j)
                           /\ creating'[j] = {} \/ tunnels'[j] = {}
                           /\ tunnels'[j] = {} \/ tunnels[j] # {} \/ creating[j] # {}
                           /\ creating'[j] \subseteq creating[j]
                           /\ allocated'[j] = allocated[j] \/ creating'[j] \cup ips(j)' = {}
    PROVE  TunnelInv'
<1>1. Taken'
  BY DEF TunnelInv, Taken
<1>2. OneAfterTheOther'
  BY DEF TunnelInv, OneAfterTheOther
<1>3. Apart'
  BY DEF TunnelInv, Apart
<1> QED BY <1>1, <1>2, <1>3 DEF TunnelInv

\* create_begin: the job has nothing yet, and nothing has the address it takes.
LEMMA CreateBegin ==
    ASSUME TunnelInv, ~Recreate, NEW j \in Jobs, create_begin(j)
    PROVE  TunnelInv'
<1>1. /\ j \notin known /\ known' = known \cup {j} /\ tunnels' = tunnels /\ next' = next + 1
      /\ creating' = [creating EXCEPT ![j] = {next}]
      /\ allocated' = [allocated EXCEPT ![j] = {next}]
  BY DEF create_begin, allocate
<1>2. /\ next \in Nat /\ creating[j] = {} /\ tunnels[j] = {} /\ ips(j) = {}
  BY <1>1 DEF TunnelInv, FunctionsOK, OneAfterTheOther, ips
<1>3. /\ creating'[j] = {next} /\ allocated'[j] = {next} /\ tunnels'[j] = {}
      /\ \A k \in Jobs : ips(k)' = ips(k)
      /\ \A k \in Jobs : k # j => creating'[k] = creating[k] /\ allocated'[k] = allocated[k]
  BY <1>1, <1>2 DEF TunnelInv, FunctionsOK, ips
<1>4. FunctionsOK'
  BY <1>1, <1>2 DEF TunnelInv, FunctionsOK
<1>5. \A k \in Jobs : \A ip \in creating[k] \cup ips(k) : ip \in Nat /\ ip < next
  BY DEF TunnelInv, FunctionsOK, Taken, ips
<1>6. Taken'
  BY <1>1, <1>2, <1>3, <1>5 DEF TunnelInv, Taken
<1>7. OneAfterTheOther'
  BY <1>1, <1>3 DEF TunnelInv, OneAfterTheOther
<1>8. Apart'
  <2>1. \A k \in Jobs : k # j => next \notin creating[k] \cup ips(k)
    BY <1>2, <1>5
  <2> QED BY <1>2, <1>3, <2>1 DEF TunnelInv, Apart
<1> QED BY <1>4, <1>6, <1>7, <1>8 DEF TunnelInv

\* Every step of a call keeps the invariant, when no job is created twice.
LEMMA TunnelNextInv == ASSUME ~Recreate PROVE TunnelInv /\ [TunnelNext]_tunnel_vars => TunnelInv'
<1> SUFFICES ASSUME TunnelInv, [TunnelNext]_tunnel_vars PROVE TunnelInv'
  OBVIOUS
<1>1. ASSUME UNCHANGED <<tunnels, next, allocated, creating, known>> PROVE TunnelInv'
  BY <1>1 DEF TunnelInv, FunctionsOK, Taken, OneAfterTheOther, Apart, ips
<1>2. ASSUME NEW j \in Jobs, create_end(j) PROVE TunnelInv'
  <2>1. PICK ip \in creating[j] : tunnels' = [tunnels EXCEPT ![j] = {mark_active(new(ip))}]
    BY <1>2, Zenon DEF create_end
  <2> DEFINE t == mark_active(new(ip))
  <2>2. t \in [ip : Nat, state : TunnelState, bytes : Nat] /\ t.ip = ip
    BY DEF mark_active, new, TunnelState, TunnelInv, FunctionsOK
  <2> HIDE DEF t
  <2>3. /\ FunctionsOK' /\ next' = next /\ known' = known /\ allocated' = allocated
        /\ creating' = [creating EXCEPT ![j] = {}]
    BY <1>2, <2>1, <2>2 DEF create_end, TunnelInv, FunctionsOK, t
  <2>4. /\ creating'[j] = {} /\ tunnels'[j] = {t} /\ ips(j)' = {ip}
        /\ \A k \in Jobs : k # j => /\ creating'[k] = creating[k] /\ tunnels'[k] = tunnels[k]
                                    /\ ips(k)' = ips(k)
    BY <2>1, <2>2, <2>3 DEF TunnelInv, FunctionsOK, ips, t
  <2>5. \A k \in Jobs : creating[k] = {} \/ tunnels[k] = {}
    BY DEF TunnelInv, OneAfterTheOther
  <2> QED BY <2>3, <2>4, <2>5, NothingTaken
<1>3. ASSUME NEW j \in Jobs, create_dropped(j) PROVE TunnelInv'
  <2>1. /\ FunctionsOK' /\ next' = next /\ known' = known /\ allocated' = allocated
        /\ tunnels' = tunnels /\ \A k \in Jobs : creating'[k] \subseteq creating[k]
        /\ \A k \in Jobs : ips(k)' = ips(k)
    BY <1>3 DEF create_dropped, TunnelInv, FunctionsOK, ips
  <2> QED BY <2>1, NothingTaken DEF TunnelInv, OneAfterTheOther
<1>4. ASSUME NEW j \in Jobs, close_tunnel(j) PROVE TunnelInv'
  <2>1. /\ FunctionsOK' /\ next' = next /\ known' = known /\ creating' = creating
        /\ creating[j] = {} /\ tunnels'[j] = {} /\ ips(j)' = {}
        /\ \A k \in Jobs : k # j => /\ tunnels'[k] = tunnels[k] /\ ips(k)' = ips(k)
                                    /\ allocated'[k] = allocated[k]
    BY <1>4, Zenon DEF close_tunnel, release, TunnelInv, FunctionsOK, OneAfterTheOther, ips
  <2> QED BY <2>1, NothingTaken DEF TunnelInv, OneAfterTheOther
<1>5. ASSUME NEW j \in Jobs, FunctionsOK', UNCHANGED <<next, allocated, creating, known>>,
             tunnels[j] # {}, ips(j)' = ips(j),
             \A k \in Jobs : k # j => tunnels'[k] = tunnels[k]
      PROVE  TunnelInv'
  <2>1. \A k \in Jobs : ips(k)' = ips(k)
    BY <1>5 DEF ips
  <2> QED BY <1>5, <2>1, NothingTaken DEF TunnelInv, OneAfterTheOther
<1>6. ASSUME NEW j \in Jobs, close_dropped(j) PROVE TunnelInv'
  <2> DEFINE f(t) == mark_closed(mark_closing(t))
  <2>1. \A t \in tunnels[j] : /\ f(t) \in [ip : Nat, state : TunnelState, bytes : Nat]
                              /\ f(t).ip = t.ip
    BY DEF mark_closed, mark_closing, TunnelState, TunnelInv, FunctionsOK
  <2>2. /\ tunnels' = [tunnels EXCEPT ![j] = {f(t) : t \in tunnels[j]}] /\ tunnels[j] # {}
        /\ UNCHANGED <<next, allocated, creating, known>>
    BY <1>6 DEF close_dropped
  <2> HIDE DEF f
  <2>3. /\ FunctionsOK' /\ ips(j)' = ips(j) /\ \A k \in Jobs : k # j => tunnels'[k] = tunnels[k]
    BY <2>1, <2>2 DEF TunnelInv, FunctionsOK, ips
  <2> QED BY <1>5, <2>2, <2>3
<1>7. ASSUME NEW j \in Jobs, record_in_stored(j) PROVE TunnelInv'
  <2> DEFINE f(t) == [t EXCEPT !.bytes = @ + 1]
  <2>1. \A t \in tunnels[j] : /\ f(t) \in [ip : Nat, state : TunnelState, bytes : Nat]
                              /\ f(t).ip = t.ip
    BY DEF TunnelInv, FunctionsOK
  <2>2. /\ tunnels' = [tunnels EXCEPT ![j] = {f(t) : t \in tunnels[j]}] /\ tunnels[j] # {}
        /\ UNCHANGED <<next, allocated, creating, known>>
    BY <1>7 DEF record_in_stored, with_traffic
  <2> HIDE DEF f
  <2>3. /\ FunctionsOK' /\ ips(j)' = ips(j) /\ \A k \in Jobs : k # j => tunnels'[k] = tunnels[k]
    BY <2>1, <2>2 DEF TunnelInv, FunctionsOK, ips
  <2> QED BY <1>5, <2>2, <2>3
<1> QED
  BY <1>1, <1>2, <1>3, <1>4, <1>6, <1>7, CreateBegin
     DEF TunnelNext, register_peer, get_tunnel, record_in_handle, tunnel_vars

\* TunnelManager (tunnel.rs): when create_job_tunnel is called once per job, no two
\* jobs ever use the same mesh address, and a stored tunnel has the address that the
\* allocator has down for its job, whatever calls interleave or are dropped half way.
THEOREM JobAddresses == ASSUME ~Recreate PROVE TunnelSpec => []TunnelsHoldAddresses
BY InvSuffices, TunnelInitInv, TunnelNextInv, PTL DEF TunnelSpec

-----------------------------------------------------------------------------
(***************************************************************************)
(* A discovery never caches an answer to an earlier one, for every list of *)
(* servers and every set of networks.                                      *)
(***************************************************************************)

(***************************************************************************)
(* The strengthening: an answer is addressed to a socket that was bound,   *)
(* and what a running discovery's socket receives names a network that the *)
(* node was in when it asked, and so has been in since the discovery began.*)
(***************************************************************************)
Addressed == /\ socket \in Nat /\ cursor \in Nat
             /\ \A a \in inbound : a.socket \in Nat /\ a.socket <= socket

SentHere == cursor > 0 => /\ network \in visited
                          /\ \A a \in inbound : a.socket = socket => a.addr \in visited

NatInv == Addressed /\ SentHere

\* Before the first discovery nothing is cached and no socket is bound.
LEMMA NatInitInv == NatInit => NatInv
BY DEF NatInit, NatInv, Addressed, SentHere

\* Asking one more server on the running socket.
LEMMA Asked ==
    ASSUME NEW i, NEW n \in Nat, NEW rest, ask(i, n, rest)
    PROVE  \A a \in inbound' : a \in rest \/ (a.socket = n /\ a.addr = network)
BY DEF ask

\* The next server is asked from the same socket: all answers under way are for it.
LEMMA NextServer ==
    ASSUME NatInv, cursor > 0, NEW rest \in SUBSET inbound, next_server(rest),
           UNCHANGED <<network, socket, visited>>
    PROVE  NatInv'
<1>1. cursor' \in Nat
  BY DEF next_server, NatInv, Addressed
<1>2. \A a \in inbound' : a \in inbound \/ (a.socket = socket /\ a.addr = network)
  BY Asked DEF next_server, NatInv, Addressed
<1> QED BY <1>1, <1>2 DEF NatInv, Addressed, SentHere

\* Every step of a discovery and every change of network keeps the invariant.
LEMMA NatNextInv == NatInv /\ [NatNext]_nat_vars => NatInv'
<1> SUFFICES ASSUME NatInv, [NatNext]_nat_vars PROVE NatInv'
  OBVIOUS
<1>1. CASE UNCHANGED nat_vars
  BY <1>1 DEF nat_vars, NatInv, Addressed, SentHere
<1>2. CASE discover_begin
  <2>1. /\ socket \in Nat /\ socket' = socket + 1 /\ cursor' = 1 /\ network' = network /\ visited' = {network}
        /\ \A a \in inbound' : a \in inbound \/ (a.socket = socket + 1 /\ a.addr = network)
    BY <1>2, Asked DEF discover_begin, bound, NatInv, Addressed
  <2>2. \A a \in inbound : a.socket \in Nat /\ a.socket <= socket
    BY DEF NatInv, Addressed
  <2> QED BY <2>1, <2>2 DEF NatInv, Addressed, SentHere
<1>3. CASE timed_out
  BY <1>3, NextServer DEF timed_out
<1>4. CASE received
  <2>1. PICK a \in inbound :
          /\ cursor > 0 /\ UNCHANGED <<network, socket, visited>>
          /\ \/ cursor' = 0 /\ inbound' = inbound \ {a}
             \/ next_server(inbound \ {a})
    BY <1>4 DEF received
  <2>2. CASE cursor' = 0 /\ inbound' = inbound \ {a}
    BY <2>1, <2>2 DEF NatInv, Addressed, SentHere
  <2>3. CASE next_server(inbound \ {a})
    BY <2>1, <2>3, NextServer
  <2> QED BY <2>1, <2>2, <2>3
<1>5. ASSUME NEW n \in Networks, move(n) PROVE NatInv'
  BY <1>5 DEF move, NatInv, Addressed, SentHere
<1> QED BY <1>1, <1>2, <1>3, <1>4, <1>5 DEF NatNext

\* discover_external_endpoint (nat.rs): whatever is lost or late and whenever the node
\* moves, the endpoint that a discovery caches is that of a network the node has been in
\* since the discovery began, because each discovery binds a socket of its own.
THEOREM EndpointFresh == NatSpec => [][FreshEndpoint]_nat_vars
<1>1. NatInv /\ [NatNext]_nat_vars => [FreshEndpoint]_nat_vars
  <2> SUFFICES ASSUME NatInv, NatNext PROVE FreshEndpoint
    OBVIOUS
  <2>1. CASE received
    BY <2>1 DEF received, FreshEndpoint, NatInv, SentHere
  <2>2. CASE ~received
    BY <2>2 DEF NatNext, discover_begin, timed_out, move, FreshEndpoint
  <2> QED BY <2>1, <2>2
<1> QED BY <1>1, NatInitInv, NatNextInv, PTL DEF NatSpec

-----------------------------------------------------------------------------
(***************************************************************************)
(* A node takes a message for new once for as long as it remembers the id, *)
(* for every set of nodes, links and messages, every fanout and cache size *)
(* and every loss, refusal, expiry and change of peers.                    *)
(***************************************************************************)

GossipTypes == /\ known_peers \in [Nodes -> SUBSET Nodes]
               /\ sent \subseteq Messages
               /\ seen \in [Nodes -> SUBSET sent] /\ told \in [Nodes -> SUBSET sent]
               /\ handled \in [Nodes -> [Messages -> 0 .. 2]]

\* add_peer refuses the node's own id, so the origin of a query does not send it to itself.
NotItsOwnPeer == \A n \in Nodes : n \notin known_peers[n]

OnItsWay == \A f \in inflight : /\ f.msg \in sent /\ f.to \in Nodes
                                /\ f.kind \in {"response", kind(f.msg)}

\* The strengthening: what a node took for new since it last forgot the id, it remembers.
Remembered == \A n \in Nodes, m \in Messages : handled[n][m] > 0 => m \in seen[n]

GossipInv == GossipTypes /\ NotItsOwnPeer /\ OnItsWay /\ Remembered /\ HandledOnce

\* Initially no message is on its way.
LEMMA GossipInit == Init => GossipInv
<1> SUFFICES ASSUME Init PROVE GossipInv
  OBVIOUS
<1>1. GossipTypes /\ NotItsOwnPeer
  BY GossipAssumption DEF Init, GossipTypes, NotItsOwnPeer
<1>2. OnItsWay /\ Remembered /\ HandledOnce
  BY DEF Init, OnItsWay, Remembered, HandledOnce, OncePerMemory, OwnQueryNeverReturns
<1> QED BY <1>1, <1>2 DEF GossipInv

(***************************************************************************)
(* One step of a node's memory: it forgets some ids, adds some, and takes  *)
(* for new only messages it did not remember and now does.                 *)
(***************************************************************************)
LEMMA Memory ==
    ASSUME GossipInv, sent \subseteq sent', NEW n \in Nodes, NEW gone, NEW add \in SUBSET sent',
           NEW taken \in SUBSET add,
           seen' = [seen EXCEPT ![n] = (@ \ gone) \cup add],
           taken \cap seen[n] = {}, note(n, taken)
    PROVE  /\ seen' \in [Nodes -> SUBSET sent'] /\ handled' \in [Nodes -> [Messages -> 0 .. 2]]
           /\ Remembered' /\ OncePerMemory'
<1>1. /\ seen \in [Nodes -> SUBSET sent] /\ handled \in [Nodes -> [Messages -> 0 .. 2]]
      /\ \A i \in Nodes, m \in Messages : handled[i][m] <= 1 /\ (handled[i][m] > 0 => m \in seen[i])
  BY DEF GossipInv, GossipTypes, HandledOnce, OncePerMemory, Remembered
<1>2. /\ seen' \in [Nodes -> SUBSET sent'] /\ seen'[n] = (seen[n] \ gone) \cup add
      /\ \A i \in Nodes \ {n} : seen'[i] = seen[i]
  BY <1>1
<1> DEFINE count(m) == IF m \in seen[n] \ seen'[n] THEN 0
                       ELSE IF m \in taken /\ handled[n][m] < 2 THEN handled[n][m] + 1
                       ELSE handled[n][m]
<1>3. handled' = [handled EXCEPT ![n] = [m \in Messages |-> count(m)]]
  BY DEF note
<1>4. \A m \in Messages : count(m) \in 0 .. 1 /\ (count(m) > 0 => m \in seen'[n])
  <2> SUFFICES ASSUME NEW m \in Messages
               PROVE  count(m) \in 0 .. 1 /\ (count(m) > 0 => m \in seen'[n])
    OBVIOUS
  <2>1. handled[n][m] \in 0 .. 1 /\ (handled[n][m] > 0 => m \in seen[n])
    BY <1>1
  <2>2. CASE m \in taken
    <3>1. m \notin seen[n] /\ m \in seen'[n]
      BY <1>2, <2>2
    <3> QED BY <2>1, <2>2, <3>1
  <2>3. CASE m \notin taken
    BY <2>1, <2>3
  <2> QED BY <2>2, <2>3
<1> HIDE DEF count
<1>5. /\ handled' \in [Nodes -> [Messages -> 0 .. 2]]
      /\ \A m \in Messages : handled'[n][m] = count(m)
      /\ \A i \in Nodes \ {n}, m \in Messages : handled'[i][m] = handled[i][m]
  BY <1>1, <1>3, <1>4
<1>6. \A i \in Nodes, m \in Messages :
         handled'[i][m] <= 1 /\ (handled'[i][m] > 0 => m \in seen'[i])
  BY <1>1, <1>2, <1>4, <1>5
<1> QED BY <1>2, <1>5, <1>6 DEF Remembered, OncePerMemory

\* mark_seen: whatever the queue makes it forget, the id is remembered afterwards.
LEMMA Marked ==
    ASSUME GossipInv, sent \subseteq sent', NEW n \in Nodes, NEW m \in sent', mark_seen(n, m),
           NEW taken \in SUBSET {m}, taken \cap seen[n] = {}, note(n, taken)
    PROVE  /\ seen' \in [Nodes -> SUBSET sent'] /\ handled' \in [Nodes -> [Messages -> 0 .. 2]]
           /\ Remembered' /\ OncePerMemory'
<1>1. PICK gone : seen' = [seen EXCEPT ![n] = (@ \ gone) \cup {m}]
  BY Zenon DEF mark_seen
<1>2. {m} \in SUBSET sent'
  OBVIOUS
<1> QED BY <1>1, <1>2, Memory

\* The copies of a message go to the targets only.
LEMMA Copied ==
    ASSUME NEW m, NEW n, NEW T, NEW ttl, NEW hops, NEW f \in copies(m, n, T, ttl, hops)
    PROVE  f.msg = m /\ f.kind = kind(m) /\ f.to \in T
<1>1. PICK p \in T : \E h : f = [kind |-> kind(m), msg |-> m, from |-> n, to |-> p,
                                ttl_hops |-> ttl, hops |-> h]
  BY DEF copies
<1> QED BY <1>1

\* Targets are chosen among the candidates.
LEMMA Chosen == ASSUME NEW S, NEW T \in fanout_choices(S) PROVE T \subseteq S
BY DEF fanout_choices

\* Nothing is marked and nothing forgotten.
LEMMA SameMemory ==
    ASSUME GossipInv, sent \subseteq sent', UNCHANGED <<seen, handled>>
    PROVE  /\ seen' \in [Nodes -> SUBSET sent'] /\ handled' \in [Nodes -> [Messages -> 0 .. 2]]
           /\ Remembered' /\ OncePerMemory'
BY DEF GossipInv, GossipTypes, Remembered, HandledOnce, OncePerMemory

\* A step after which only responses, and copies of one message to other nodes, are new on
\* their way; copies of a query not to its origin.
LEMMA Carried ==
    ASSUME GossipInv, sent \subseteq sent', NEW m \in sent',
           \A f \in inflight' :
              \/ f \in inflight
              \/ /\ f.msg = m /\ f.to \in Nodes /\ f.kind \in {"response", kind(m)}
                 /\ f.kind = "query" => f.to # Origin[m]
    PROVE  OnItsWay' /\ OwnQueryNeverReturns'
<1>1. OnItsWay'
  BY Zenon DEF GossipInv, OnItsWay
<1>2. OwnQueryNeverReturns'
  BY DEF GossipInv, HandledOnce, OwnQueryNeverReturns
<1> QED BY <1>1, <1>2

\* prepare_announce and prepare_query: the message is new everywhere, its origin remembers
\* an announcement, and no copy goes to the origin.
LEMMA Prepared ==
    ASSUME GossipInv, NEW m \in Messages, prepare_announce(m) \/ prepare_query(m)
    PROVE  GossipInv'
<1> DEFINE n == Origin[m]
<1>1. n \in Nodes
  BY GossipAssumption
<1>2. m \notin sent /\ sent' = sent \cup {m} /\ UNCHANGED <<known_peers, told>>
  BY Zenon DEF prepare_announce, prepare_query
<1>3. \E T \in SUBSET known_peers[n] :
         inflight' = inflight \cup copies(m, n, T, max_ttl_hops, 1)
  BY Chosen, Zenon DEF prepare_announce, prepare_query
<1>4. \A f \in inflight' :
         f \in inflight \/ (f.msg = m /\ f.kind = kind(m) /\ f.to \in known_peers[n])
  <2>1. PICK T \in SUBSET known_peers[n] :
           inflight' = inflight \cup copies(m, n, T, max_ttl_hops, 1)
    BY <1>3
  <2>2. \A f \in copies(m, n, T, max_ttl_hops, 1) : f.msg = m /\ f.kind = kind(m) /\ f.to \in T
    BY Copied
  <2> QED BY <2>1, <2>2, Zenon
<1>5. /\ seen' \in [Nodes -> SUBSET sent'] /\ handled' \in [Nodes -> [Messages -> 0 .. 2]]
      /\ Remembered' /\ OncePerMemory'
  <2>1. CASE prepare_announce(m)
    <3>1. mark_seen(n, m) /\ note(n, {m})
      BY <2>1, Zenon DEF prepare_announce
    <3>2. {m} \cap seen[n] = {} /\ m \in sent' /\ sent \subseteq sent' /\ {m} \in SUBSET {m}
      BY <1>1, <1>2 DEF GossipInv, GossipTypes
    <3> HIDE DEF n
    <3> QED BY <1>1, <3>1, <3>2, Marked
  <2>2. CASE prepare_query(m)
    BY <1>2, <2>2, SameMemory, Zenon DEF prepare_query, seen_vars
  <2> QED BY <2>1, <2>2
<1>6. OnItsWay' /\ OwnQueryNeverReturns'
  <2>1. \A f \in inflight' : \/ f \in inflight
                             \/ /\ f.msg = m /\ f.to \in Nodes /\ f.kind \in {"response", kind(m)}
                                /\ f.kind = "query" => f.to # Origin[m]
    BY <1>1, <1>4 DEF GossipInv, GossipTypes, NotItsOwnPeer
  <2> HIDE DEF n
  <2> QED BY <1>2, <2>1, Carried
<1>7. GossipTypes' /\ NotItsOwnPeer'
  <2>1. told' \in [Nodes -> SUBSET sent']
    BY <1>2 DEF GossipInv, GossipTypes
  <2> QED BY <1>2, <1>5, <2>1 DEF GossipInv, GossipTypes, NotItsOwnPeer
<1> QED BY <1>5, <1>6, <1>7, Zenon DEF GossipInv, HandledOnce

\* handle_announce and handle_query: the node does not remember the message and does
\* afterwards; and a query is not forwarded to its origin.
LEMMA Handled ==
    ASSUME GossipInv, NEW f \in inflight, handle_announce(f) \/ handle_query(f)
    PROVE  GossipInv'
<1> DEFINE n == f.to
           m == f.msg
<1>1. /\ n \in Nodes /\ m \in sent /\ f.kind = kind(m) /\ m \notin seen[n]
  BY Zenon DEF GossipInv, OnItsWay, handle_announce, handle_query, duplicate
<1>2. /\ UNCHANGED <<known_peers, sent>> /\ mark_seen(n, m) /\ note(n, {m})
      /\ told' = told \/ told' = [told EXCEPT ![n] = @ \cup {m}]
  BY Zenon DEF handle_announce, handle_query
<1>3. \E T \in SUBSET (known_peers[n] \ excluded(f)) :
         inflight' \subseteq inflight \cup copies(m, n, T, f.ttl_hops, f.hops + 1)
  <2>1. PICK T \in fanout_choices(known_peers[n] \ excluded(f)) :
           inflight' \subseteq inflight \cup copies(m, n, T, f.ttl_hops, f.hops + 1)
    BY Zenon DEF handle_announce, handle_query
  <2> QED BY <2>1, Chosen, Zenon
<1>4. \A g \in inflight' : \/ g \in inflight
                           \/ /\ g.msg = m /\ g.kind = kind(m) /\ g.to \in known_peers[n]
                              /\ g.kind = "query" => g.to # Origin[m]
  <2>1. f.kind = "query" => Origin[m] \in excluded(f)
    BY DEF excluded
  <2>2. PICK T \in SUBSET (known_peers[n] \ excluded(f)) :
           inflight' \subseteq inflight \cup copies(m, n, T, f.ttl_hops, f.hops + 1)
    BY <1>3, Zenon
  <2>3. \A g \in copies(m, n, T, f.ttl_hops, f.hops + 1) :
           g.msg = m /\ g.kind = kind(m) /\ g.to \in T
    BY Copied
  <2> QED BY <1>1, <2>1, <2>2, <2>3
<1> HIDE DEF n, m
<1>5. /\ seen' \in [Nodes -> SUBSET sent'] /\ handled' \in [Nodes -> [Messages -> 0 .. 2]]
      /\ Remembered' /\ OncePerMemory'
  <2>1. {m} \cap seen[n] = {} /\ m \in sent' /\ sent \subseteq sent' /\ {m} \in SUBSET {m}
    BY <1>1, <1>2
  <2> QED BY <1>1, <1>2, <2>1, Marked
<1>6. OnItsWay' /\ OwnQueryNeverReturns'
  <2>1. \A g \in inflight' : \/ g \in inflight
                             \/ /\ g.msg = m /\ g.to \in Nodes /\ g.kind \in {"response", kind(m)}
                                /\ g.kind = "query" => g.to # Origin[m]
    BY <1>1, <1>4 DEF GossipInv, GossipTypes
  <2> QED BY <1>1, <1>2, <2>1, Carried
<1>7. GossipTypes' /\ NotItsOwnPeer'
  <2>1. told' \in [Nodes -> SUBSET sent']
    BY <1>1, <1>2 DEF GossipInv, GossipTypes
  <2> QED BY <1>2, <1>5, <2>1 DEF GossipInv, GossipTypes, NotItsOwnPeer
<1> QED BY <1>5, <1>6, <1>7, Zenon DEF GossipInv, HandledOnce

\* send_response, handle_response, refusals and losses: responses are not taken for new.
LEMMA Answered ==
    ASSUME GossipInv,
           \/ \E n \in Nodes, m \in Messages : send_response(n, m)
           \/ \E f \in inflight : handle_response(f) \/ refuse(f)
    PROVE  GossipInv'
<1>1. UNCHANGED <<known_peers, sent, told>>
  BY Zenon DEF send_response, handle_response, refuse
<1>2. \E m \in sent : \A f \in inflight' :
         \/ f \in inflight
         \/ f.kind = "response" /\ f.to = Origin[m] /\ f.msg = m
  <2>1. ASSUME NEW n \in Nodes, NEW m \in Messages, send_response(n, m)
        PROVE  m \in sent /\ \A f \in inflight' :
                  f \in inflight \/ (f.kind = "response" /\ f.to = Origin[m] /\ f.msg = m)
    <3>1. m \in sent
      BY <2>1 DEF send_response, GossipInv, GossipTypes
    <3>2. inflight' = inflight \cup
             {[kind |-> "response", msg |-> m, from |-> n, to |-> Origin[m],
               ttl_hops |-> 0, hops |-> 1]}
      BY <2>1, Zenon DEF send_response
    <3> QED BY <3>1, <3>2
  <2>2. ASSUME NEW f \in inflight, handle_response(f) \/ refuse(f)
        PROVE  f.msg \in sent /\ inflight' \subseteq inflight
    BY <2>2 DEF handle_response, refuse, GossipInv, OnItsWay
  <2> QED BY <2>1, <2>2
<1>3. OnItsWay' /\ OwnQueryNeverReturns'
  <2>1. PICK m \in sent : \A f \in inflight' :
           \/ f \in inflight
           \/ f.kind = "response" /\ f.to = Origin[m] /\ f.msg = m
    BY <1>2
  <2>2. Origin[m] \in Nodes
    BY GossipAssumption DEF GossipInv, GossipTypes
  <2> QED BY <1>1, <2>1, <2>2, Carried
<1>4. /\ seen' \in [Nodes -> SUBSET sent'] /\ handled' \in [Nodes -> [Messages -> 0 .. 2]]
      /\ Remembered' /\ OncePerMemory'
  <2>1. CASE UNCHANGED <<seen, handled>>
    BY <1>1, <2>1, SameMemory
  <2>2. ASSUME NEW f \in inflight, handle_response(f)
        PROVE  /\ seen' \in [Nodes -> SUBSET sent'] /\ handled' \in [Nodes -> [Messages -> 0 .. 2]]
               /\ Remembered' /\ OncePerMemory'
    <3>1. mark_seen(f.to, f.msg) /\ note(f.to, {})
      BY <2>2, Zenon DEF handle_response
    <3>2. f.to \in Nodes /\ f.msg \in sent' /\ sent \subseteq sent'
      BY <1>1 DEF GossipInv, OnItsWay
    <3>3. {} \in SUBSET {f.msg} /\ {} \cap seen[f.to] = {}
      OBVIOUS
    <3> QED BY <3>1, <3>2, <3>3, Marked
  <2> QED BY <2>1, <2>2, Zenon DEF send_response, refuse, seen_vars
<1>5. GossipTypes' /\ NotItsOwnPeer'
  BY <1>1, <1>4 DEF GossipInv, GossipTypes, NotItsOwnPeer
<1> QED BY <1>3, <1>4, <1>5, Zenon DEF GossipInv, HandledOnce

\* cleanup: what is forgotten counts from nought.
LEMMA CleanedUp ==
    ASSUME GossipInv, NEW n \in Nodes, NEW old, NEW kept, cleanup(n, old, kept)
    PROVE  GossipInv'
<1>1. /\ UNCHANGED <<known_peers, sent, told, inflight>> /\ note(n, {})
      /\ seen' = [seen EXCEPT ![n] = @ \ old]
  BY Zenon DEF cleanup
<1>2. /\ seen' = [seen EXCEPT ![n] = (@ \ old) \cup {}]
      /\ {} \in SUBSET sent' /\ {} \in SUBSET {} /\ {} \cap seen[n] = {} /\ sent \subseteq sent'
  BY <1>1
<1>3. /\ seen' \in [Nodes -> SUBSET sent'] /\ handled' \in [Nodes -> [Messages -> 0 .. 2]]
      /\ Remembered' /\ OncePerMemory'
  BY <1>1, <1>2, Memory
<1>4. GossipTypes' /\ NotItsOwnPeer' /\ OnItsWay' /\ OwnQueryNeverReturns'
  BY <1>1, <1>3 DEF GossipInv, GossipTypes, NotItsOwnPeer, OnItsWay, HandledOnce, OwnQueryNeverReturns
<1> QED BY <1>3, <1>4, Zenon DEF GossipInv, HandledOnce

\* Peers that come and go, starts and stops, and expiry.
LEMMA Housekeeping ==
    ASSUME GossipInv,
           \/ \E n \in Nodes : start_stop(n)
           \/ \E n, p \in Nodes : add_peer(n, p) \/ remove_peer(n, p)
           \/ \E m \in Announces : expire(m)
           \/ UNCHANGED vars
    PROVE  GossipInv'
<1>1. UNCHANGED <<seen, handled, sent, told, inflight>>
  BY Zenon DEF start_stop, add_peer, remove_peer, expire, vars, seen_vars
<1>2. known_peers' \in [Nodes -> SUBSET Nodes] /\ NotItsOwnPeer'
  <2>1. CASE UNCHANGED known_peers
    BY <2>1 DEF GossipInv, GossipTypes, NotItsOwnPeer
  <2>2. ASSUME NEW n \in Nodes, NEW p \in Nodes, add_peer(n, p) \/ remove_peer(n, p)
        PROVE  known_peers' \in [Nodes -> SUBSET Nodes] /\ NotItsOwnPeer'
    <3>1. known_peers \in [Nodes -> SUBSET Nodes] /\ \A i \in Nodes : i \notin known_peers[i]
      BY DEF GossipInv, GossipTypes, NotItsOwnPeer
    <3>2. \E S \in SUBSET Nodes : known_peers' = [known_peers EXCEPT ![n] = S] /\ n \notin S
      <4>1. known_peers[n] \in SUBSET Nodes /\ n \notin known_peers[n]
        BY <3>1
      <4>2. CASE add_peer(n, p)
        BY <4>1, <4>2, Zenon DEF add_peer
      <4>3. CASE remove_peer(n, p)
        BY <4>1, <4>3, Zenon DEF remove_peer
      <4> QED BY <2>2, <4>2, <4>3
    <3> QED BY <3>1, <3>2 DEF NotItsOwnPeer
  <2> QED BY <2>1, <2>2, Zenon DEF start_stop, expire, vars
<1>3. /\ seen' \in [Nodes -> SUBSET sent'] /\ handled' \in [Nodes -> [Messages -> 0 .. 2]]
      /\ Remembered' /\ OncePerMemory'
  BY <1>1, SameMemory
<1>4. GossipTypes' /\ OnItsWay' /\ OwnQueryNeverReturns'
  BY <1>1, <1>2, <1>3 DEF GossipInv, GossipTypes, OnItsWay, HandledOnce, OwnQueryNeverReturns
<1> QED BY <1>2, <1>3, <1>4, Zenon DEF GossipInv, HandledOnce

\* Gossip (broadcast.rs, node.rs): between two forgettings of its id, by eviction at
\* max_seen_cache or by cleanup, a node takes a message for new once at most, however many
\* copies arrive over whatever paths and however peers come and go; and a query never comes
\* back to its origin, which has not marked it as seen, whatever any node has forgotten.
THEOREM MessagesHandledOnce == Spec => []HandledOnce
<1>1. GossipInv => HandledOnce
  BY DEF GossipInv
<1>2. GossipInv /\ [Next]_vars => GossipInv'
  <2> SUFFICES ASSUME GossipInv, [Next]_vars PROVE GossipInv'
    OBVIOUS
  <2> QED BY Prepared, Handled, Answered, CleanedUp, Housekeeping, Zenon DEF Next, Handle
<1> QED BY <1>1, <1>2, GossipInit, PTL DEF Spec

-----------------------------------------------------------------------------
(***************************************************************************)
(* A link loses, doubles and reorders nothing, and the health record of a  *)
(* connection tells how long there was no contact.                         *)
(***************************************************************************)

\* What an end keeps, whatever the bounds.
EndRecord == [state : States, alive : BOOLEAN, messages_sent : Nat, messages_received : Nat]

\* The ends and the queues have their types.
LinkShape == /\ ends \in [End -> EndRecord]
             /\ queues \in [End -> Seq(Nat)]

\* An end that lives never counts more than the other end sent.
NoneInvented == \A e \in End : ends[e].alive =>
                    ends[e].messages_received <= ends[Other(e)].messages_sent

\* The numbers of the messages between the last one received and the last one sent.
between(got, put) == [i \in 1 .. (put - got) |-> got + i]

LinkInv == LinkShape /\ NoneInvented /\ CountsAgree

\* One more message is sent.
LEMMA OneMoreSent ==
    ASSUME NEW got \in Nat, NEW put \in Nat, got <= put
    PROVE  Append(between(got, put), put + 1) = between(got, put + 1)
<1> DEFINE s == between(got, put)
           t == between(got, put + 1)
<1>1. s \in Seq(Nat) /\ Len(s) = put - got /\ t \in Seq(Nat) /\ Len(t) = put + 1 - got
  BY DEF between
<1>2. /\ \A i \in 1 .. Len(s) : s[i] = got + i
      /\ \A i \in 1 .. Len(t) : t[i] = got + i
  BY <1>1 DEF between
<1> HIDE DEF s, t
<1>3. /\ Append(s, put + 1) \in Seq(Nat)
      /\ Len(Append(s, put + 1)) = Len(t)
  BY <1>1
<1>4. \A i \in 1 .. Len(t) : Append(s, put + 1)[i] = t[i]
  BY <1>1, <1>2
<1>5. Append(s, put + 1) = t
  BY <1>1, <1>3, <1>4, SeqEqual
<1> QED BY <1>5 DEF s, t

\* The first message is received.
LEMMA OneMoreReceived ==
    ASSUME NEW got \in Nat, NEW put \in Nat, got <= put, between(got, put) # <<>>
    PROVE  got + 1 <= put /\ Tail(between(got, put)) = between(got + 1, put)
<1> DEFINE s == between(got, put)
           t == between(got + 1, put)
<1>1. s \in Seq(Nat) /\ Len(s) = put - got
  BY DEF between
<1>2. got + 1 <= put
  BY <1>1
<1>3. t \in Seq(Nat) /\ Len(t) = put - (got + 1)
  BY <1>2 DEF between
<1>4. /\ \A i \in 1 .. Len(s) : s[i] = got + i
      /\ \A i \in 1 .. Len(t) : t[i] = got + 1 + i
  BY <1>1, <1>3 DEF between
<1> HIDE DEF s, t
<1>5. Tail(s) \in Seq(Nat) /\ Len(Tail(s)) = Len(t)
  BY <1>1, <1>2, <1>3
<1>6. \A i \in 1 .. Len(t) : Tail(s)[i] = t[i]
  BY <1>1, <1>2, <1>3, <1>4
<1>7. Tail(s) = t
  BY <1>3, <1>5, <1>6, SeqEqual, Zenon
<1> QED BY <1>2, <1>7 DEF s, t

\* The queue of an end that lives.
LEMMA QueueOf ==
    ASSUME LinkInv, NEW e \in End, ends[e].alive
    PROVE  /\ ends[e].messages_received \in Nat /\ ends[Other(e)].messages_sent \in Nat
           /\ ends[e].messages_received <= ends[Other(e)].messages_sent
           /\ queues[e] = between(ends[e].messages_received, ends[Other(e)].messages_sent)
<1>1. Other(e) \in End
  BY DEF End, Other
<1>2. ends[e].messages_received \in Nat /\ ends[Other(e)].messages_sent \in Nat
  BY <1>1 DEF LinkInv, LinkShape, EndRecord
<1>3. ends[e].messages_received <= ends[Other(e)].messages_sent
  BY DEF LinkInv, NoneInvented
<1>4. queues[e] = between(ends[e].messages_received, ends[Other(e)].messages_sent)
  BY DEF LinkInv, CountsAgree, between
<1> QED BY <1>2, <1>3, <1>4

\* A step that leaves the counts and the queues alone and revives no end.
LEMMA CountsKept ==
    ASSUME LinkInv, LinkShape', queues' = queues,
           \A e \in End : /\ ends'[e].alive => ends[e].alive
                          /\ ends'[e].messages_sent = ends[e].messages_sent
                          /\ ends'[e].messages_received = ends[e].messages_received
    PROVE  LinkInv'
<1>1. \A e \in End : Other(e) \in End
  BY DEF End, Other
<1>2. ASSUME NEW e \in End, ends'[e].alive
      PROVE  /\ ends'[e].messages_received <= ends'[Other(e)].messages_sent
             /\ queues'[e] = between(ends'[e].messages_received, ends'[Other(e)].messages_sent)
  BY <1>1, <1>2, QueueOf
<1> QED BY <1>2, Zenon DEF LinkInv, NoneInvented, CountsAgree, between

\* send: the message enters the queue of an end that lives, and is counted.
LEMMA SendCounts ==
    ASSUME LinkInv, NEW e \in End, send_end(e)
    PROVE  LinkInv'
<1> DEFINE o == Other(e)
<1>1. /\ o \in End /\ o # e /\ Other(o) = e
      /\ \A x \in End : x = e \/ x = o
  BY DEF End, Other
<1> HIDE DEF o
<1>2. CASE ~ ends[o].alive
  BY <1>2, CountsKept DEF send_end, LinkInv, LinkShape, o
<1>3. CASE ends[o].alive
  <2>1. /\ queues' = [queues EXCEPT ![o] = Append(@, ends[e].messages_sent + 1)]
        /\ ends' = [ends EXCEPT ![e] = counted_sent(@)]
    BY <1>3 DEF send_end, o
  <2>2. LinkShape
    BY DEF LinkInv
  <2>3. /\ ends'[o] = ends[o] /\ queues'[e] = queues[e]
        /\ ends'[e].alive = ends[e].alive
        /\ ends'[e].messages_sent = ends[e].messages_sent + 1
        /\ ends'[e].messages_received = ends[e].messages_received
        /\ queues'[o] = Append(queues[o], ends[e].messages_sent + 1)
    BY <1>1, <2>1, <2>2 DEF LinkShape, EndRecord, counted_sent
  <2>4. LinkShape'
    <3>1. counted_sent(ends[e]) \in EndRecord /\ ends[e].messages_sent + 1 \in Nat
      <4>1. ends[e] \in EndRecord
        BY <2>2 DEF LinkShape
      <4>2. ends[e].messages_sent + 1 \in Nat
        BY <4>1 DEF EndRecord
      <4> QED BY <4>1, <4>2 DEF EndRecord, counted_sent
    <3>2. Append(queues[o], ends[e].messages_sent + 1) \in Seq(Nat)
      BY <1>1, <2>2, <3>1 DEF LinkShape
    <3> QED BY <1>1, <2>1, <2>2, <3>1, <3>2 DEF LinkShape
  <2>5. /\ ends[o].messages_received \in Nat /\ ends[e].messages_sent \in Nat
        /\ ends[o].messages_received <= ends[e].messages_sent
        /\ queues[o] = between(ends[o].messages_received, ends[e].messages_sent)
    BY <1>1, <1>3, QueueOf
  <2>6. /\ ends'[o].messages_received <= ends'[e].messages_sent
        /\ queues'[o] = between(ends'[o].messages_received, ends'[e].messages_sent)
    <3>1. Append(between(ends[o].messages_received, ends[e].messages_sent), ends[e].messages_sent + 1)
            = between(ends[o].messages_received, ends[e].messages_sent + 1)
      BY <2>5, OneMoreSent, Zenon
    <3>2. queues'[o] = between(ends'[o].messages_received, ends'[e].messages_sent)
      BY <2>3, <2>5, <3>1, Zenon
    <3>3. ends[o].messages_received <= ends[e].messages_sent + 1
      BY <2>5
    <3> QED BY <2>3, <3>2, <3>3, Zenon
  <2>7. ASSUME ends'[e].alive
        PROVE  /\ ends'[e].messages_received <= ends'[o].messages_sent
               /\ queues'[e] = between(ends'[e].messages_received, ends'[o].messages_sent)
    BY <1>1, <2>3, <2>7, QueueOf, Zenon DEF o
  <2>8. ASSUME NEW x \in End, ends'[x].alive
        PROVE  /\ ends'[x].messages_received <= ends'[Other(x)].messages_sent
               /\ queues'[x] = between(ends'[x].messages_received, ends'[Other(x)].messages_sent)
    BY <1>1, <2>6, <2>7, <2>8, Zenon DEF o
  <2> QED BY <2>4, <2>8, Zenon DEF LinkInv, NoneInvented, CountsAgree, between
<1> QED BY <1>2, <1>3

\* recv and try_recv: the first message leaves the queue, and is counted.
LEMMA ReceiveCounts ==
    ASSUME LinkInv, NEW e \in End, queues[e] # <<>>,
           queues' = [queues EXCEPT ![e] = Tail(@)],
           ends' = [ends EXCEPT ![e] = counted_received(@)]
    PROVE  LinkInv'
<1> DEFINE o == Other(e)
<1>1. /\ o \in End /\ o # e /\ Other(o) = e
      /\ \A x \in End : x = e \/ x = o
  BY DEF End, Other
<1>2. LinkShape
  BY DEF LinkInv
<1> HIDE DEF o
<1>3. /\ ends'[o] = ends[o] /\ queues'[o] = queues[o]
      /\ ends'[e].alive = ends[e].alive
      /\ ends'[e].messages_sent = ends[e].messages_sent
      /\ ends'[e].messages_received = ends[e].messages_received + 1
      /\ queues'[e] = Tail(queues[e])
  BY <1>1, <1>2 DEF LinkShape, EndRecord, counted_received
<1>4. LinkShape'
  <2>1. counted_received(ends[e]) \in EndRecord
    <3>1. ends[e] \in EndRecord
      BY <1>2 DEF LinkShape
    <3>2. ends[e].messages_received + 1 \in Nat
      BY <3>1 DEF EndRecord
    <3> QED BY <3>1, <3>2 DEF EndRecord, counted_received
  <2>2. Tail(queues[e]) \in Seq(Nat)
    BY <1>2 DEF LinkShape
  <2> QED BY <1>1, <1>2, <2>1, <2>2 DEF LinkShape
<1>5. ASSUME ends'[e].alive
      PROVE  /\ ends'[e].messages_received <= ends'[o].messages_sent
             /\ queues'[e] = between(ends'[e].messages_received, ends'[o].messages_sent)
  <2>1. /\ ends[e].messages_received \in Nat /\ ends[o].messages_sent \in Nat
        /\ ends[e].messages_received <= ends[o].messages_sent
        /\ queues[e] = between(ends[e].messages_received, ends[o].messages_sent)
    BY <1>3, <1>5, QueueOf, Zenon DEF o
  <2> QED BY <1>3, <2>1, OneMoreReceived, Zenon
<1>6. ASSUME ends'[o].alive
      PROVE  /\ ends'[o].messages_received <= ends'[e].messages_sent
             /\ queues'[o] = between(ends'[o].messages_received, ends'[e].messages_sent)
  BY <1>1, <1>3, <1>6, QueueOf
<1>7. ASSUME NEW x \in End, ends'[x].alive
      PROVE  /\ ends'[x].messages_received <= ends'[Other(x)].messages_sent
             /\ queues'[x] = between(ends'[x].messages_received, ends'[Other(x)].messages_sent)
  BY <1>1, <1>5, <1>6, <1>7 DEF o
<1> QED BY <1>4, <1>7, Zenon DEF LinkInv, NoneInvented, CountsAgree, between

\* drop: the end is dead and its queue with it; the other end keeps its own.
LEMMA DropCounts ==
    ASSUME LinkInv, NEW e \in End, drop(e)
    PROVE  LinkInv'
<1>1. LinkShape
  BY DEF LinkInv
<1>2. /\ ends' = [ends EXCEPT ![e].alive = FALSE]
      /\ queues' = [queues EXCEPT ![e] = <<>>]
  BY DEF drop
<1>3. LinkShape'
  <2>1. ends[e] \in EndRecord
    BY <1>1 DEF LinkShape
  <2>2. [ends[e] EXCEPT !.alive = FALSE] \in EndRecord
    BY <2>1, Zenon DEF EndRecord
  <2>3. ends' = [ends EXCEPT ![e] = [ends[e] EXCEPT !.alive = FALSE]]
    BY <1>1, <1>2 DEF LinkShape
  <2> QED BY <1>1, <1>2, <2>2, <2>3 DEF LinkShape
<1>4. /\ ~ ends'[e].alive
      /\ \A x \in End : /\ ends'[x].messages_sent = ends[x].messages_sent
                        /\ ends'[x].messages_received = ends[x].messages_received
                        /\ x # e => ends'[x] = ends[x] /\ queues'[x] = queues[x]
  BY <1>1, <1>2 DEF LinkShape, EndRecord
<1>5. \A x \in End : Other(x) \in End
  BY DEF End, Other
<1>6. ASSUME NEW x \in End, ends'[x].alive
      PROVE  /\ ends'[x].messages_received <= ends'[Other(x)].messages_sent
             /\ queues'[x] = between(ends'[x].messages_received, ends'[Other(x)].messages_sent)
  BY <1>4, <1>5, <1>6, QueueOf, Zenon
<1> QED BY <1>3, <1>6, Zenon DEF LinkInv, NoneInvented, CountsAgree, between

\* Every step of a link keeps what the counts tell.
LEMMA LinkStep == LinkInv /\ [LinkNext]_link_vars => LinkInv'
<1> SUFFICES ASSUME LinkInv, [LinkNext]_link_vars PROVE LinkInv'
  OBVIOUS
<1>1. LinkShape
  BY DEF LinkInv
<1>2. ASSUME ends' = ends, queues' = queues PROVE LinkInv'
  BY <1>2 DEF LinkInv, LinkShape, NoneInvented, CountsAgree
<1>3. CASE UNCHANGED link_vars
  BY <1>2, <1>3 DEF link_vars
<1>4. ASSUME NEW e \in End, send_begin(e) \/ recv_begin(e) \/ give_up(e) PROVE LinkInv'
  BY <1>2, <1>4 DEF send_begin, recv_begin, give_up
<1>5. ASSUME NEW e \in End, recv_end(e) \/ try_recv(e) PROVE LinkInv'
  BY <1>2, <1>5, ReceiveCounts DEF recv_end, try_recv
<1>6. ASSUME NEW e \in End, NEW s \in States, mark_end(e, s) PROVE LinkInv'
  <2>1. LinkShape' /\ queues' = queues
    BY <1>1, <1>6, Zenon DEF LinkShape, EndRecord, mark_end
  <2>2. \A x \in End : /\ ends'[x].alive = ends[x].alive
                       /\ ends'[x].messages_sent = ends[x].messages_sent
                       /\ ends'[x].messages_received = ends[x].messages_received
    BY <1>1, <1>6 DEF LinkShape, EndRecord, mark_end
  <2> QED BY <2>1, <2>2, CountsKept, Zenon
<1> QED BY <1>3, <1>4, <1>5, <1>6, SendCounts, DropCounts DEF LinkNext

-----------------------------------------------------------------------------
\* What the health record counts, and that the clock is behind the time of the last
\* contact by no more than it was set back since.
HealthRecord == [successful_pings : Nat, failed_pings : Nat, last_seen : Nat,
                 messages_sent : Nat, messages_received : Nat]

HealthShape == /\ health \in HealthRecord
               /\ outcomes \in [answered : Nat, lost : Nat]
               /\ now \in Nat /\ silence \in Nat /\ set_back \in Nat

HealthInv == /\ HealthShape
             /\ health.last_seen + silence <= now + set_back
             /\ outcomes.answered = health.successful_pings
             /\ outcomes.lost = health.failed_pings

\* Every step of the record keeps it true.
LEMMA HealthStep == HealthInv /\ [HealthNext]_health_vars => HealthInv'
<1> SUFFICES ASSUME HealthInv, [HealthNext]_health_vars PROVE HealthInv'
  OBVIOUS
<1> USE DEF HealthInv, HealthShape
<1>1. CASE record_ping_success
  <2>1. /\ health' \in HealthRecord
        /\ health'.last_seen = now /\ health'.successful_pings = health.successful_pings + 1
        /\ health'.failed_pings = health.failed_pings
    <3>1. health.successful_pings + 1 \in Nat /\ now \in Nat
      BY DEF HealthRecord
    <3>2. health' = [health EXCEPT !.successful_pings = health.successful_pings + 1, !.last_seen = now]
      BY <1>1 DEF record_ping_success
    <3> QED BY <3>1, <3>2, Zenon DEF HealthRecord
  <2>2. /\ outcomes' \in [answered : Nat, lost : Nat]
        /\ outcomes'.answered = outcomes.answered + 1 /\ outcomes'.lost = outcomes.lost
    BY <1>1 DEF record_ping_success
  <2> QED BY <1>1, <2>1, <2>2 DEF record_ping_success, Seen
<1>2. CASE record_ping_failure
  <2>1. /\ health' \in HealthRecord
        /\ health'.last_seen = health.last_seen
        /\ health'.successful_pings = health.successful_pings
        /\ health'.failed_pings = health.failed_pings + 1
    BY <1>2 DEF record_ping_failure, ping_failure, HealthRecord
  <2>2. /\ outcomes' \in [answered : Nat, lost : Nat]
        /\ outcomes'.answered = outcomes.answered /\ outcomes'.lost = outcomes.lost + 1
    BY <1>2 DEF record_ping_failure
  <2> QED BY <1>2, <2>1, <2>2 DEF record_ping_failure
<1>3. CASE record_message_sent \/ record_message_received
  <2>1. /\ health' \in HealthRecord
        /\ health'.last_seen = now
        /\ health'.successful_pings = health.successful_pings
        /\ health'.failed_pings = health.failed_pings
    <3>1. /\ health.messages_sent + 1 \in Nat /\ health.messages_received + 1 \in Nat
          /\ now \in Nat
      BY DEF HealthRecord
    <3>2. \/ health' = [health EXCEPT !.messages_sent = health.messages_sent + 1, !.last_seen = now]
          \/ health' = [health EXCEPT !.messages_received = health.messages_received + 1, !.last_seen = now]
      BY <1>3 DEF record_message_sent, record_message_received
    <3> QED BY <3>1, <3>2, Zenon DEF HealthRecord
  <2> QED BY <1>3, <2>1 DEF record_message_sent, record_message_received, Seen
<1>4. CASE mark_connected \/ mark_disconnecting \/ \E s \in {"Disconnected", "Failed"} : mark_terminal(s)
  BY <1>4 DEF mark_connected, mark_disconnecting, mark_terminal
<1>5. CASE pass
  BY <1>5 DEF pass, HealthRecord
<1>6. ASSUME NEW t \in 0 .. MaxTime, set_clock(t) PROVE HealthInv'
  <2>1. /\ t \in Nat /\ now' = t /\ UNCHANGED <<health, silence, outcomes>>
        /\ set_back' = IF t < now THEN set_back + (now - t) ELSE set_back
    BY <1>6 DEF set_clock
  <2>2. set_back' \in Nat /\ now + set_back <= now' + set_back'
    BY <2>1
  <2> QED BY <2>1, <2>2 DEF HealthRecord
<1>7. CASE UNCHANGED health_vars
  BY <1>7 DEF health_vars
<1> QED BY <1>1, <1>2, <1>3, <1>4, <1>5, <1>6, <1>7 DEF HealthNext

\* A record that is true keeps only peers there was contact with.
LEMMA TrueRecordsKeep == HealthInv => KeptPeersInTouch
<1> SUFFICES ASSUME HealthInv, is_usable, is_healthy(health)
             PROVE  /\ silence < max_silence + set_back
                    /\ outcomes.lost > 0 => outcomes.answered > outcomes.lost
  BY DEF KeptPeersInTouch, unhealthy
<1>1. health.last_seen <= now /\ now < health.last_seen + max_silence
  BY SilenceAssumption DEF HealthInv, HealthShape, HealthRecord, is_healthy
<1>2. outcomes.lost > 0 => outcomes.answered > outcomes.lost
  BY DEF HealthInv, HealthShape, HealthRecord, is_healthy, good_rate
<1>3. silence < max_silence + set_back
  BY <1>1, SilenceAssumption DEF HealthInv, HealthShape, HealthRecord
<1> QED BY <1>2, <1>3

\* What one end of a link counts as sent, the other, while it lives, has received or will
\* receive in that order (ActiveConnection::send, recv, try_recv).  And when
\* unhealthy_connections leaves a connection alone, more pings were answered than lost, and
\* a message was sent or something received less than max_silence ago, give or take what
\* the clock was set back since.  For every room in the queues and every order of calls,
\* drops, pings and changes of the clock.
THEOREM LinksTrue == LinkSpec /\ HealthSpec => []LinksTellTruth
<1>1. LinkInit => LinkInv
  <2> SUFFICES ASSUME LinkInit PROVE LinkInv
    OBVIOUS
  <2>1. LinkShape
    BY DEF LinkInit, LinkShape, EndRecord, States
  <2>2. \A e \in End : /\ queues[e] = <<>> /\ ends[e].messages_received = 0
                       /\ ends[e].messages_sent = 0
    BY DEF LinkInit
  <2>3. \A e \in End : Other(e) \in End
    BY DEF End, Other
  <2>4. between(0, 0) = <<>>
    BY DEF between
  <2> QED BY <2>1, <2>2, <2>3, <2>4 DEF LinkInv, NoneInvented, CountsAgree, between
<1>2. HealthInit => HealthInv
  BY DEF HealthInit, HealthInv, HealthShape, HealthRecord
<1>3. LinkInv => CountsAgree
  BY DEF LinkInv
<1> QED BY <1>1, <1>2, <1>3, LinkStep, HealthStep, TrueRecordsKeep, PTL
       DEF LinkSpec, HealthSpec, LinksTellTruth
=============================================================================
