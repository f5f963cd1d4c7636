--------------------------- MODULE WorkloadProofs ---------------------------
(***************************************************************************)
(* Proofs about the workload commands of a node, for either runtime, every *)
(* subnet and any number of runs, stops, faults and restarts: the records  *)
(* tell the truth about the containers, and the addresses are accounted    *)
(* for.                                                                    *)
(***************************************************************************)
EXTENDS WorkloadCommands, SequenceTheorems, FiniteSetTheorems, TLAPS

\* Every address below x is in f for one workload or in s once; no other is in either.
Accounted(f, s, x) ==
    /\ x \in Nat /\ 2 <= x /\ s \in Seq(Nat)
    /\ \A w \in DOMAIN f : f[w] \in 2 .. (x - 1)
    /\ \A i \in 1 .. Len(s) : s[i] \in 2 .. (x - 1)
    /\ \A v, w \in DOMAIN f : f[v] = f[w] => v = w
    /\ \A i, j \in 1 .. Len(s) : s[i] = s[j] => i = j
    /\ \A w \in DOMAIN f : \A i \in 1 .. Len(s) : f[w] # s[i]
    /\ \A a \in 2 .. (x - 1) : \/ \E w \in DOMAIN f : f[w] = a
                               \/ \E i \in 1 .. Len(s) : s[i] = a

\* A new address is given to a workload that has none.
LEMMA NewAddress ==
    ASSUME NEW f, NEW x, Accounted(f, <<>>, x), NEW w, w \notin DOMAIN f
    PROVE  Accounted(Put(f, w, x), <<>>, x + 1)
<1> DEFINE g == Put(f, w, x)
<1>1. DOMAIN g = DOMAIN f \cup {w} /\ g[w] = x /\ \A v \in DOMAIN f : g[v] = f[v]
  BY DEF Put
<1>2. x \in Nat /\ 2 <= x /\ Len(<<>>) = 0 /\ <<>> \in Seq(Nat)
  BY DEF Accounted
<1> HIDE DEF g
<1>3. \A v \in DOMAIN g : g[v] \in 2 .. (x + 1 - 1)
  BY <1>1, <1>2 DEF Accounted
<1>4. \A u, v \in DOMAIN g : g[u] = g[v] => u = v
  <2>1. \A v \in DOMAIN f : f[v] # x
    BY <1>2 DEF Accounted
  <2> QED BY <1>1, <2>1 DEF Accounted
<1>5. ASSUME NEW a \in 2 .. (x + 1 - 1) PROVE \E v \in DOMAIN g : g[v] = a
  <2>1. CASE a = x
    BY <1>1, <2>1
  <2>2. CASE a # x
    <3>1. a \in 2 .. (x - 1)
      BY <1>2, <2>2
    <3>2. PICK v \in DOMAIN f : f[v] = a
      BY <1>2, <3>1 DEF Accounted
    <3> QED BY <1>1, <3>2
  <2> QED BY <2>1, <2>2
<1>6. x + 1 \in Nat /\ 2 <= x + 1
  BY <1>2
<1> QED BY <1>2, <1>3, <1>4, <1>5, <1>6 DEF Accounted, g

\* The first n elements of a sequence.
LEMMA Prefix ==
    ASSUME NEW s \in Seq(Nat), NEW n \in Nat, n <= Len(s)
    PROVE  /\ SubSeq(s, 1, n) \in Seq(Nat) /\ Len(SubSeq(s, 1, n)) = n
           /\ \A i \in 1 .. n : SubSeq(s, 1, n)[i] = s[i]
<1>1. 1 \in Int /\ n \in Int /\ \A i \in 1 .. n : s[i] \in Nat
  OBVIOUS
<1>2. SubSeq(s, 1, n) \in Seq(Nat)
  BY <1>1, SubSeqProperties
<1>3. Len(SubSeq(s, 1, n)) = n
  OBVIOUS
<1>4. \A i \in 1 .. n : SubSeq(s, 1, n)[i] = s[i]
  OBVIOUS
<1> QED BY <1>2, <1>3, <1>4

\* The address that was released last is given out again.
LEMMA AddressAgain ==
    ASSUME NEW f, NEW s, NEW x, Accounted(f, s, x), s # <<>>, NEW w, w \notin DOMAIN f
    PROVE  Accounted(Put(f, w, s[Len(s)]), SubSeq(s, 1, Len(s) - 1), x)
<1> DEFINE g == Put(f, w, s[Len(s)])
           t == SubSeq(s, 1, Len(s) - 1)
<1>1. DOMAIN g = DOMAIN f \cup {w} /\ g[w] = s[Len(s)] /\ \A v \in DOMAIN f : g[v] = f[v]
  BY DEF Put
<1>2. x \in Nat /\ 2 <= x /\ s \in Seq(Nat) /\ Len(s) \in Nat
  BY DEF Accounted
<1>3. Len(s) > 0
  BY <1>2, EmptySeq
<1>4. /\ t \in Seq(Nat) /\ Len(t) = Len(s) - 1
      /\ \A i \in 1 .. Len(t) : t[i] = s[i]
  <2>1. Len(s) - 1 \in Nat /\ Len(s) - 1 <= Len(s)
    BY <1>2, <1>3
  <2> QED BY <1>2, <2>1, Prefix, Zenon
<1> HIDE DEF g, t
<1>5. /\ Len(s) \in 1 .. Len(s)
      /\ \A i \in 1 .. Len(t) : i \in 1 .. Len(s) /\ i # Len(s) /\ t[i] = s[i]
  BY <1>2, <1>3, <1>4
<1>6. /\ \A i, j \in 1 .. Len(s) : s[i] = s[j] => i = j
      /\ \A v \in DOMAIN f : \A i \in 1 .. Len(s) : f[v] # s[i]
  BY DEF Accounted
<1>7. /\ \A v \in DOMAIN g : g[v] \in 2 .. (x - 1)
      /\ \A i \in 1 .. Len(t) : t[i] \in 2 .. (x - 1)
  <2>1. /\ \A v \in DOMAIN f : f[v] \in 2 .. (x - 1)
        /\ \A i \in 1 .. Len(s) : s[i] \in 2 .. (x - 1)
    BY DEF Accounted
  <2>2. ASSUME NEW v \in DOMAIN g PROVE g[v] \in 2 .. (x - 1)
    BY <1>1, <1>5, <2>1, Zenon
  <2>3. \A i \in 1 .. Len(t) : t[i] \in 2 .. (x - 1)
    BY <1>5, <2>1, Zenon
  <2> QED BY <2>2, <2>3
<1>8. \A u, v \in DOMAIN g : g[u] = g[v] => u = v
  <2>1. \A v \in DOMAIN f : f[v] # s[Len(s)]
    BY <1>2, <1>3 DEF Accounted
  <2> QED BY <1>1, <2>1 DEF Accounted
<1>9. \A i, j \in 1 .. Len(t) : t[i] = t[j] => i = j
  BY <1>5, <1>6, Zenon
<1>10. \A v \in DOMAIN g : \A i \in 1 .. Len(t) : g[v] # t[i]
  <2>1. ASSUME NEW v \in DOMAIN g, NEW i \in 1 .. Len(t) PROVE g[v] # t[i]
    <3>1. CASE v = w
      BY <1>1, <1>5, <1>6, <3>1, Zenon
    <3>2. CASE v # w
      <4>1. v \in DOMAIN f
        BY <1>1, <3>2
      <4> QED BY <1>1, <1>5, <1>6, <4>1, Zenon
    <3> QED BY <3>1, <3>2
  <2> QED BY <2>1
<1>11. ASSUME NEW a \in 2 .. (x - 1)
      PROVE  (\E v \in DOMAIN g : g[v] = a) \/ (\E i \in 1 .. Len(t) : t[i] = a)
  <2>1. CASE \E v \in DOMAIN f : f[v] = a
    BY <1>1, <2>1
  <2>2. CASE \E i \in 1 .. Len(s) : s[i] = a
    <3>1. PICK i \in 1 .. Len(s) : s[i] = a
      BY <2>2
    <3>2. CASE i = Len(s)
      BY <1>1, <3>1, <3>2
    <3>3. CASE i # Len(s)
      <4>1. i \in 1 .. Len(t)
        BY <1>2, <1>4, <3>3
      <4> QED BY <1>4, <3>1, <4>1, Zenon
    <3> QED BY <3>2, <3>3
  <2> QED BY <2>1, <2>2 DEF Accounted
<1> QED BY <1>2, <1>4, <1>7, <1>8, <1>9, <1>10, <1>11, Zenon DEF Accounted, g, t

\* An address is released.
LEMMA AddressBack ==
    ASSUME NEW f, NEW s, NEW x, Accounted(f, s, x), NEW w \in DOMAIN f
    PROVE  Accounted(Drop(f, w), Append(s, f[w]), x)
<1> DEFINE g == Drop(f, w)
           t == Append(s, f[w])
<1>1. DOMAIN g = DOMAIN f \ {w} /\ \A v \in DOMAIN g : v \in DOMAIN f /\ g[v] = f[v]
  BY DEF Drop
<1>2. x \in Nat /\ 2 <= x /\ s \in Seq(Nat) /\ Len(s) \in Nat
  BY DEF Accounted
<1>3. f[w] \in 2 .. (x - 1) /\ f[w] \in Nat
  BY <1>2 DEF Accounted
<1>4. /\ t \in Seq(Nat) /\ Len(t) = Len(s) + 1 /\ t[Len(s) + 1] = f[w]
      /\ \A i \in 1 .. Len(s) : t[i] = s[i]
  BY <1>2, <1>3
<1> HIDE DEF g, t
<1>5. \A i \in 1 .. Len(t) : i \in 1 .. Len(s) \/ i = Len(s) + 1
  BY <1>2, <1>4
<1>6. /\ \A v \in DOMAIN g : g[v] \in 2 .. (x - 1)
      /\ \A i \in 1 .. Len(t) : t[i] \in 2 .. (x - 1)
  BY <1>1, <1>3, <1>4, <1>5, Zenon DEF Accounted
<1>7. \A u, v \in DOMAIN g : g[u] = g[v] => u = v
  BY <1>1 DEF Accounted
<1>8. /\ \A i, j \in 1 .. Len(s) : s[i] = s[j] => i = j
      /\ \A v \in DOMAIN f : \A i \in 1 .. Len(s) : f[v] # s[i]
      /\ \A u, v \in DOMAIN f : f[u] = f[v] => u = v
  BY DEF Accounted
<1>9. \A i, j \in 1 .. Len(t) : t[i] = t[j] => i = j
  <2>1. ASSUME NEW i \in 1 .. Len(t), NEW j \in 1 .. Len(t), t[i] = t[j] PROVE i = j
    <3>1. CASE i \in 1 .. Len(s) /\ j \in 1 .. Len(s)
      BY <1>4, <1>8, <2>1, <3>1, Zenon
    <3>2. CASE i \in 1 .. Len(s) /\ j = Len(s) + 1
      BY <1>4, <1>8, <2>1, <3>2, Zenon
    <3>3. CASE i = Len(s) + 1 /\ j \in 1 .. Len(s)
      BY <1>4, <1>8, <2>1, <3>3, Zenon
    <3>4. CASE i = Len(s) + 1 /\ j = Len(s) + 1
      BY <3>4
    <3> QED BY <1>5, <3>1, <3>2, <3>3, <3>4, Zenon
  <2> QED BY <2>1
<1>10. \A v \in DOMAIN g : \A i \in 1 .. Len(t) : g[v] # t[i]
  <2>1. ASSUME NEW v \in DOMAIN g, NEW i \in 1 .. Len(t) PROVE g[v] # t[i]
    <3>1. v \in DOMAIN f /\ v # w /\ g[v] = f[v]
      BY <1>1
    <3> QED BY <1>4, <1>5, <1>8, <3>1, Zenon
  <2> QED BY <2>1
<1>11. ASSUME NEW a \in 2 .. (x - 1)
       PROVE  (\E v \in DOMAIN g : g[v] = a) \/ (\E i \in 1 .. Len(t) : t[i] = a)
  <2>1. CASE \E v \in DOMAIN f : f[v] = a
    <3>1. PICK v \in DOMAIN f : f[v] = a
      BY <2>1
    <3>2. CASE v = w
      <4>1. Len(s) + 1 \in 1 .. Len(t)
        BY <1>2, <1>4
      <4> QED BY <1>4, <3>1, <3>2, <4>1
    <3>3. CASE v # w
      BY <1>1, <3>1, <3>3
    <3> QED BY <3>2, <3>3
  <2>2. CASE \E i \in 1 .. Len(s) : s[i] = a
    <3>1. \A i \in 1 .. Len(s) : i \in 1 .. Len(t)
      BY <1>2, <1>4
    <3> QED BY <1>4, <2>2, <3>1
  <2> QED BY <2>1, <2>2 DEF Accounted
<1> QED BY <1>2, <1>4, <1>6, <1>7, <1>9, <1>10, <1>11, Zenon DEF Accounted, g, t

\* Counted as AddressesAccounted counts them.
LEMMA CountedOnce ==
    ASSUME NEW f, NEW s, NEW x, Accounted(f, s, x), NEW a \in Nat, 2 <= a
    PROVE  Cardinality({w \in DOMAIN f : f[w] = a}) + Cardinality({i \in DOMAIN s : s[i] = a})
              = IF a < x THEN 1 ELSE 0
<1> DEFINE W == {w \in DOMAIN f : f[w] = a}
           I == {i \in DOMAIN s : s[i] = a}
<1>1. x \in Nat /\ s \in Seq(Nat) /\ DOMAIN s = 1 .. Len(s)
  BY DEF Accounted
<1>2. Cardinality({}) = 0 /\ \A e : Cardinality({e}) = 1
  BY FS_EmptySet, FS_Singleton, Zenon
<1>3. CASE a < x
  <2>1. a \in 2 .. (x - 1)
    BY <1>1, <1>3
  <2>2. CASE \E w \in DOMAIN f : f[w] = a
    <3>1. PICK w \in DOMAIN f : f[w] = a
      BY <2>2
    <3>2. W = {w} /\ I = {}
      BY <1>1, <3>1 DEF Accounted
    <3>3. Cardinality(W) = 1 /\ Cardinality(I) = 0
      BY <1>2, <3>2, Zenon
    <3>4. Cardinality(W) + Cardinality(I) = 1
      BY <3>3
    <3> QED BY <1>3, <3>4, Zenon
  <2>3. CASE \E i \in 1 .. Len(s) : s[i] = a
    <3>1. PICK i \in 1 .. Len(s) : s[i] = a
      BY <2>3
    <3>2. W = {} /\ I = {i}
      BY <1>1, <3>1 DEF Accounted
    <3>3. Cardinality(W) = 0 /\ Cardinality(I) = 1
      BY <1>2, <3>2, Zenon
    <3>4. Cardinality(W) + Cardinality(I) = 1
      BY <3>3
    <3> QED BY <1>3, <3>4, Zenon
  <2> QED BY <2>1, <2>2, <2>3 DEF Accounted
<1>4. CASE ~ (a < x)
  <2>1. a \notin 2 .. (x - 1)
    BY <1>1, <1>4
  <2>2. W = {} /\ I = {}
    BY <1>1, <2>1 DEF Accounted
  <2> QED BY <1>2, <1>4, <2>2
<1> QED BY <1>3, <1>4

-----------------------------------------------------------------------------
\* The network manager keeps its fields, gives addresses to the first k workloads only
\* and accounts for each of them.
NetHolds(n, k) ==
    /\ n = [allocated_ips |-> n.allocated_ips, container_to_workload |-> n.container_to_workload,
            next_ip |-> n.next_ip, free_pool |-> n.free_pool]
    /\ DOMAIN n.allocated_ips \subseteq 1 .. k
    /\ Accounted(n.allocated_ips, n.free_pool, n.next_ip)

LEMMA NetLater ==
    ASSUME NEW n, NEW k \in Nat, NetHolds(n, k)
    PROVE  NetHolds(n, k + 1)
<1>1. 1 .. k \subseteq 1 .. (k + 1)
  OBVIOUS
<1>2. DOMAIN n.allocated_ips \subseteq 1 .. (k + 1)
  BY <1>1 DEF NetHolds
<1> QED BY <1>2 DEF NetHolds

\* A network manager with these fields.
LEMMA NetIs ==
    ASSUME NEW n, NEW f, NEW t, NEW x, NEW s, NEW k,
           n = [allocated_ips |-> f, container_to_workload |-> t, next_ip |-> x, free_pool |-> s],
           DOMAIN f \subseteq 1 .. k, Accounted(f, s, x)
    PROVE  NetHolds(n, k)
<1>1. n.allocated_ips = f /\ n.container_to_workload = t /\ n.next_ip = x /\ n.free_pool = s
  OBVIOUS
<1>2. n = [allocated_ips |-> n.allocated_ips, container_to_workload |-> n.container_to_workload,
           next_ip |-> n.next_ip, free_pool |-> n.free_pool]
  BY <1>1
<1> QED BY <1>1, <1>2, Zenon DEF NetHolds

LEMMA NewNetHolds == \A k \in Nat : NetHolds(NewNet, k)
<1> SUFFICES ASSUME NEW k \in Nat PROVE NetHolds(NewNet, k)
  OBVIOUS
<1>1. DOMAIN EmptyStore = {}
  BY EmptySeq DEF EmptyStore
<1>2. <<>> \in Seq(Nat) /\ Len(<<>>) = 0 /\ 1 .. 0 = {} /\ 2 .. (2 - 1) = {}
  OBVIOUS
<1>3. Accounted(EmptyStore, <<>>, 2)
  BY <1>1, <1>2 DEF Accounted
<1>4. DOMAIN EmptyStore \subseteq 1 .. k
  BY <1>1
<1> QED BY <1>3, <1>4, NetIs DEF NewNet

\* allocate_ip for the next workload.
LEMMA AllocateHolds ==
    ASSUME NEW n, NEW k \in Nat, NetHolds(n, k)
    PROVE  NetHolds(allocate_ip(n, k + 1), k + 1)
<1> DEFINE f == n.allocated_ips
           s == n.free_pool
           x == n.next_ip
           t == n.container_to_workload
           w == k + 1
<1>1. n = [allocated_ips |-> f, container_to_workload |-> t, next_ip |-> x, free_pool |-> s]
  BY DEF NetHolds
<1>2. Accounted(f, s, x) /\ DOMAIN f \subseteq 1 .. k
  BY DEF NetHolds
<1>3. w \notin DOMAIN f
  BY <1>2
<1>4. \A a : DOMAIN Put(f, w, a) \subseteq 1 .. w
  <2>1. w \in 1 .. w /\ 1 .. k \subseteq 1 .. w
    OBVIOUS
  <2> QED BY <1>2, <2>1 DEF Put
<1>5. CASE next_suffix(n) = {}
  BY <1>5, NetLater DEF allocate_ip
<1>6. CASE next_suffix(n) # {} /\ s = <<>>
  <2>1. next_suffix(n) = {x}
    BY <1>6 DEF next_suffix
  <2>2. (CHOOSE a \in next_suffix(n) : TRUE) = x
    BY <2>1
  <2>3. allocate_ip(n, w) = [n EXCEPT !.allocated_ips = Put(@, w, x),
                                      !.free_pool = IF @ = <<>> THEN @ ELSE SubSeq(@, 1, Len(@) - 1),
                                      !.next_ip = IF n.free_pool = <<>> THEN @ + 1 ELSE @]
    BY <1>6, <2>2, Zenon DEF allocate_ip
  <2> HIDE DEF w
  <2>4. allocate_ip(n, w) = [allocated_ips |-> Put(f, w, x), container_to_workload |-> t,
                             next_ip |-> x + 1, free_pool |-> <<>>]
    BY <1>1, <1>6, <2>3, Zenon
  <2>5. Accounted(Put(f, w, x), <<>>, x + 1)
    BY <1>2, <1>3, <1>6, NewAddress
  <2>6. NetHolds(allocate_ip(n, w), w)
    BY <1>4, <2>4, <2>5, NetIs
  <2> QED BY <2>6 DEF w
<1>7. CASE next_suffix(n) # {} /\ s # <<>>
  <2>1. next_suffix(n) = {s[Len(s)]}
    BY <1>7 DEF next_suffix
  <2>2. (CHOOSE a \in next_suffix(n) : TRUE) = s[Len(s)]
    BY <2>1
  <2>3. allocate_ip(n, w) = [n EXCEPT !.allocated_ips = Put(@, w, s[Len(s)]),
                                      !.free_pool = IF @ = <<>> THEN @ ELSE SubSeq(@, 1, Len(@) - 1),
                                      !.next_ip = IF n.free_pool = <<>> THEN @ + 1 ELSE @]
    BY <1>7, <2>2, Zenon DEF allocate_ip
  <2> HIDE DEF w
  <2>4. allocate_ip(n, w) = [allocated_ips |-> Put(f, w, s[Len(s)]), container_to_workload |-> t,
                             next_ip |-> x, free_pool |-> SubSeq(s, 1, Len(s) - 1)]
    BY <1>1, <1>7, <2>3, Zenon
  <2>5. Accounted(Put(f, w, s[Len(s)]), SubSeq(s, 1, Len(s) - 1), x)
    BY <1>2, <1>3, <1>7, AddressAgain
  <2>6. NetHolds(allocate_ip(n, w), w)
    BY <1>4, <2>4, <2>5, NetIs, Zenon
  <2> QED BY <2>6 DEF w
<1> QED BY <1>5, <1>6, <1>7

\* release_ip.
LEMMA ReleaseHolds ==
    ASSUME NEW n, NEW k, NetHolds(n, k), NEW w
    PROVE  NetHolds(release_ip(n, w), k)
<1> DEFINE f == n.allocated_ips
           s == n.free_pool
           x == n.next_ip
           t == n.container_to_workload
<1>1. n = [allocated_ips |-> f, container_to_workload |-> t, next_ip |-> x, free_pool |-> s]
  BY DEF NetHolds
<1>2. Accounted(f, s, x) /\ DOMAIN f \subseteq 1 .. k
  BY DEF NetHolds
<1>3. CASE w \notin DOMAIN f
  BY <1>3 DEF release_ip
<1>4. CASE w \in DOMAIN f
  <2>1. release_ip(n, w) = [n EXCEPT !.allocated_ips = Drop(@, w), !.free_pool = Append(@, f[w])]
    BY <1>4, Zenon DEF release_ip
  <2>2. release_ip(n, w) = [allocated_ips |-> Drop(f, w), container_to_workload |-> t,
                            next_ip |-> x, free_pool |-> Append(s, f[w])]
    BY <1>1, <2>1, Zenon
  <2>3. Accounted(Drop(f, w), Append(s, f[w]), x)
    BY <1>2, <1>4, AddressBack
  <2>4. DOMAIN Drop(f, w) \subseteq 1 .. k
    BY <1>2 DEF Drop
  <2> QED BY <2>2, <2>3, <2>4, NetIs, Zenon
<1> QED BY <1>3, <1>4

LEMMA TrackHolds ==
    ASSUME NEW n, NEW k, NetHolds(n, k), NEW map
    PROVE  NetHolds([n EXCEPT !.container_to_workload = map], k)
<1> DEFINE f == n.allocated_ips
           s == n.free_pool
           x == n.next_ip
<1>1. n = [allocated_ips |-> f, container_to_workload |-> n.container_to_workload, next_ip |-> x,
           free_pool |-> s]
  BY DEF NetHolds
<1>2. Accounted(f, s, x) /\ DOMAIN f \subseteq 1 .. k
  BY DEF NetHolds
<1>3. [n EXCEPT !.container_to_workload = map]
         = [allocated_ips |-> f, container_to_workload |-> map, next_ip |-> x, free_pool |-> s]
  BY <1>1
<1> QED BY <1>2, <1>3, NetIs

LEMMA ReleaseByHolds ==
    ASSUME NEW n, NEW k, NetHolds(n, k), NEW c
    PROVE  NetHolds(release_by_container(n, c), k)
<1>1. CASE c \notin DOMAIN n.container_to_workload
  BY <1>1 DEF release_by_container
<1>2. CASE c \in DOMAIN n.container_to_workload
  <2> DEFINE m == [n EXCEPT !.container_to_workload = Drop(n.container_to_workload, c)]
  <2>1. NetHolds(m, k)
    BY TrackHolds
  <2>2. release_by_container(n, c) = release_ip(m, n.container_to_workload[c])
    BY <1>2 DEF release_by_container
  <2> QED BY <2>1, <2>2, ReleaseHolds
<1> QED BY <1>1, <1>2

-----------------------------------------------------------------------------
\* The first k workloads may have containers, and no two that are up have one address.
\* "stopped" is a state of records alone.
ContainersHold(cs, k) ==
    /\ DOMAIN cs \subseteq 1 .. k
    /\ \A c \in DOMAIN cs : DOMAIN cs[c] = {"name", "ip", "status"} /\ cs[c].status # "stopped"
    /\ \A c, d \in DOMAIN cs :
          c # d /\ cs[c].ip # {} /\ cs[c].status # "exited" /\ cs[d].status # "exited"
          => cs[c].ip # cs[d].ip

\* The records of map m name containers of the first k workloads, and one that says
\* "stopped" names one that has ended, if it is still there.
Told(m, cs, k) ==
    \A w \in DOMAIN m :
        /\ DOMAIN m[w] = {"container_id", "state"} /\ m[w].container_id \in 0 .. k
        /\ m[w].state = "stopped" => \A c \in DOMAIN cs : c = m[w].container_id => cs[c].status = "exited"

\* The containers ds are those of cs, some of them removed; what has ended stays so.
Quieter(ds, cs) ==
    /\ DOMAIN ds \subseteq DOMAIN cs
    /\ \A c \in DOMAIN ds : /\ DOMAIN ds[c] = DOMAIN cs[c] /\ ds[c].ip = cs[c].ip
                            /\ ds[c].status # "exited" => cs[c].status # "exited"
                            /\ cs[c].status # "stopped" => ds[c].status # "stopped"

LEMMA QuieterHolds ==
    ASSUME NEW ds, NEW cs, Quieter(ds, cs), NEW k
    PROVE  /\ ContainersHold(cs, k) => ContainersHold(ds, k)
           /\ \A m : Told(m, cs, k) => Told(m, ds, k)
<1>1. ASSUME ContainersHold(cs, k) PROVE ContainersHold(ds, k)
  <2>1. /\ DOMAIN ds \subseteq 1 .. k
        /\ \A c \in DOMAIN ds : DOMAIN ds[c] = {"name", "ip", "status"} /\ ds[c].status # "stopped"
    BY <1>1 DEF Quieter, ContainersHold
  <2>2. ASSUME NEW c \in DOMAIN ds, NEW d \in DOMAIN ds, c # d, ds[c].ip # {},
               ds[c].status # "exited", ds[d].status # "exited"
        PROVE  ds[c].ip # ds[d].ip
    BY <1>1, <2>2, Zenon DEF Quieter, ContainersHold
  <2> QED BY <2>1, <2>2 DEF ContainersHold
<1>2. ASSUME NEW m, Told(m, cs, k) PROVE Told(m, ds, k)
  BY <1>2, Zenon DEF Quieter, Told
<1> QED BY <1>1, <1>2

\* A container's status becomes s.
LEMMA StatusQuieter ==
    ASSUME NEW cs, NEW k, ContainersHold(cs, k), NEW c \in DOMAIN cs, NEW s, s # "stopped",
           s = "exited" \/ cs[c].status # "exited"
    PROVE  Quieter([cs EXCEPT ![c].status = s], cs)
<1> DEFINE ds == [cs EXCEPT ![c].status = s]
<1>1. DOMAIN ds = DOMAIN cs /\ \A d \in DOMAIN cs \ {c} : ds[d] = cs[d]
  OBVIOUS
<1>2. DOMAIN cs[c] = {"name", "ip", "status"}
  BY DEF ContainersHold
<1>3. ds[c] = [cs[c] EXCEPT !.status = s]
  OBVIOUS
<1>4. DOMAIN ds[c] = DOMAIN cs[c] /\ ds[c].ip = cs[c].ip /\ ds[c].status = s
  BY <1>2, <1>3
<1> HIDE DEF ds
<1>5. ASSUME NEW d \in DOMAIN ds
      PROVE  /\ DOMAIN ds[d] = DOMAIN cs[d] /\ ds[d].ip = cs[d].ip
             /\ ds[d].status # "exited" => cs[d].status # "exited"
             /\ cs[d].status # "stopped" => ds[d].status # "stopped"
  <2>1. CASE d = c
    BY <1>4, <2>1
  <2>2. CASE d # c
    BY <1>1, <2>2
  <2> QED BY <2>1, <2>2
<1> QED BY <1>1, <1>5 DEF Quieter, ds

\* Old records beside the container of the next workload.
LEMMA ToldBeside ==
    ASSUME NEW m, NEW cs, NEW k \in Nat, Told(m, cs, k), NEW e
    PROVE  Told(m, cs, k + 1) /\ Told(m, Put(cs, k + 1, e), k + 1)
<1>1. 0 .. k \subseteq 0 .. (k + 1) /\ k + 1 \notin 0 .. k
  OBVIOUS
<1>2. \A c \in DOMAIN Put(cs, k + 1, e) : c # k + 1 => c \in DOMAIN cs /\ Put(cs, k + 1, e)[c] = cs[c]
  BY DEF Put
<1>3. Told(m, cs, k + 1)
  BY <1>1, Zenon DEF Told
<1> HIDE DEF Put
<1>4. Told(m, Put(cs, k + 1, e), k + 1)
  BY <1>1, <1>2, Zenon DEF Told
<1> QED BY <1>3, <1>4

\* The record of the next workload, which is running.
LEMMA ToldNew ==
    ASSUME NEW m, NEW cs, NEW k \in Nat, Told(m, cs, k), NEW w, NEW id \in 0 .. k
    PROVE  Told(Put(m, w, [container_id |-> id, state |-> "running"]), cs, k)
<1> DEFINE e == [container_id |-> id, state |-> "running"]
           r == Put(m, w, e)
<1>1. DOMAIN r = DOMAIN m \cup {w} /\ r[w] = e /\ \A v \in DOMAIN m \ {w} : r[v] = m[v]
  BY DEF Put
<1>2. DOMAIN e = {"container_id", "state"} /\ e.container_id = id /\ e.state # "stopped"
  OBVIOUS
<1> HIDE DEF e, r
<1>3. Told(r, cs, k)
  <2> SUFFICES ASSUME NEW v \in DOMAIN r
               PROVE  /\ DOMAIN r[v] = {"container_id", "state"} /\ r[v].container_id \in 0 .. k
                      /\ r[v].state = "stopped"
                         => \A c \in DOMAIN cs : c = r[v].container_id => cs[c].status = "exited"
    BY Zenon DEF Told
  <2>1. CASE v = w
    BY <1>1, <1>2, <2>1, Zenon
  <2>2. CASE v # w
    <3>1. v \in DOMAIN m /\ r[v] = m[v]
      BY <1>1, <2>2, Zenon
    <3> QED BY <3>1, Zenon DEF Told
  <2> QED BY <2>1, <2>2
<1> QED BY <1>3 DEF e, r

\* The record of workload w says "stopped", and its container does not run.
LEMMA ToldStopped ==
    ASSUME NEW m, NEW cs, NEW k, Told(m, cs, k), NEW w \in DOMAIN m,
           \A c \in DOMAIN cs : c = m[w].container_id => cs[c].status = "exited"
    PROVE  Told(update_state(m, w, "stopped"), cs, k)
<1> DEFINE r == update_state(m, w, "stopped")
<1>1. DOMAIN r = DOMAIN m /\ r[w] = [m[w] EXCEPT !.state = "stopped"]
      /\ \A v \in DOMAIN m \ {w} : r[v] = m[v]
  BY DEF update_state
<1>2. DOMAIN m[w] = {"container_id", "state"} /\ m[w].container_id \in 0 .. k
  BY DEF Told
<1>3. DOMAIN r[w] = {"container_id", "state"} /\ r[w].container_id = m[w].container_id
  BY <1>1, <1>2
<1> HIDE DEF r
<1>4. Told(r, cs, k)
  <2> SUFFICES ASSUME NEW v \in DOMAIN r
               PROVE  /\ DOMAIN r[v] = {"container_id", "state"} /\ r[v].container_id \in 0 .. k
                      /\ r[v].state = "stopped"
                         => \A c \in DOMAIN cs : c = r[v].container_id => cs[c].status = "exited"
    BY Zenon DEF Told
  <2>1. CASE v = w
    BY <1>2, <1>3, <2>1, Zenon
  <2>2. CASE v # w
    <3>1. v \in DOMAIN m /\ r[v] = m[v]
      BY <1>1, <2>2
    <3> QED BY <3>1, Zenon DEF Told
  <2> QED BY <2>1, <2>2
<1> QED BY <1>4 DEF r

LEMMA NothingTold == \A cs, k : Told(EmptyStore, cs, k)
<1>1. DOMAIN EmptyStore = {}
  BY EmptySeq DEF EmptyStore
<1> QED BY <1>1 DEF Told

-----------------------------------------------------------------------------
\* The maps of a node that has the workload store alone.
OneMap(maps) == maps = [workloads |-> maps.workloads]

\* What a node holds of workloads: the inductive invariant.
WorkloadsHold ==
    /\ OneMap(mem) /\ OneMap(disk) /\ runs \in Nat
    /\ Told(mem.workloads, containers, runs) /\ Told(disk.workloads, containers, runs)
    /\ ContainersHold(containers, runs) /\ NetHolds(net, runs)

\* After a step both maps are among the old ones, m and the map of a torn file.
Among(m) ==
    /\ OneMap(mem') /\ OneMap(disk')
    /\ mem'.workloads \in {mem.workloads, disk.workloads, m, EmptyStore}
    /\ disk'.workloads \in {mem.workloads, disk.workloads, m, EmptyStore}

\* One write sets the map; none leaves it.
LEMMA ApplyWrite ==
    ASSUME NEW maps, OneMap(maps), NEW m
    PROVE  /\ apply(maps, write("workloads", m)) = [workloads |-> m] /\ apply(maps, <<>>) = maps
           /\ \A x : [maps EXCEPT !["workloads"] = x] = [workloads |-> x]
<1> DEFINE w == [store |-> "workloads", map |-> m]
<1>1. DOMAIN maps = {"workloads"}
  BY DEF OneMap
<1>2. write("workloads", m) = <<w>> /\ DOMAIN <<w>> = {1} /\ <<w>>[1] = w
  BY DEF write
<1>3. Max({1}) = 1
  BY DEF Max
<1>4. {k \in DOMAIN <<w>> : <<w>>[k].store = "workloads"} = {1} /\ w.map = m
  BY <1>2
<1>5. {k \in DOMAIN <<>> : <<>>[k].store = "workloads"} = {}
  OBVIOUS
<1> HIDE DEF w
<1>6. apply(maps, <<w>>) = [workloads |-> m]
  BY <1>1, <1>2, <1>3, <1>4 DEF apply
<1>7. apply(maps, <<>>) = maps
  BY <1>1, <1>5 DEF apply, OneMap
<1> QED BY <1>1, <1>2, <1>6, <1>7

LEMMA CommitAmong ==
    ASSUME OneMap(mem), OneMap(disk), NEW p, NEW m, NEW answer,
           commit(p, write("workloads", m), answer)
    PROVE  Among(m)
<1> DEFINE w == [store |-> "workloads", map |-> m]
           After == [workloads |-> m]
           Empty == [workloads |-> EmptyStore]
<1>1. write("workloads", m) = <<w>> /\ w.store = "workloads"
  BY DEF write
<1>2. /\ apply(disk, <<w>>) = After /\ apply(mem, <<w>>) = After /\ apply(disk, <<>>) = disk
      /\ [disk EXCEPT !["workloads"] = EmptyStore] = Empty
  BY <1>1, ApplyWrite
<1>3. OneMap(After) /\ OneMap(Empty) /\ After.workloads = m /\ Empty.workloads = EmptyStore
  BY DEF OneMap
<1> HIDE DEF w, After, Empty
<1>4. DOMAIN <<w>> = {1} /\ <<w>>[1] = w /\ Len(<<w>>) = 1
  OBVIOUS
<1>5. SubSeq(<<w>>, 1, 0) = <<>> /\ SubSeq(<<w>>, 2, 1) = <<>>
  BY SubSeqEmpty
<1>6. SubSeq(<<w>>, 1, 1) = <<w>>
  <2>1. <<w>> \in Seq({w})
    OBVIOUS
  <2> QED BY <1>4, <2>1, SubSeqFull, Zenon
<1>7. all_but(<<w>>, 1) = <<>>
  <2>1. <<>> \o <<>> = <<>>
    OBVIOUS
  <2> QED BY <1>4, <1>5, <2>1 DEF all_but
<1>8. /\ disk' \in {disk, After, Empty}
      /\ mem' \in {mem, disk', After}
  <2>1. CASE save(p, <<w>>, answer)
    BY <1>2, <2>1 DEF save
  <2>2. CASE save_fails(p, <<w>>, answer)
    <3>1. PICK k \in DOMAIN <<w>> :
             disk' \in {apply(disk, all_but(<<w>>, k)),
                        [apply(disk, all_but(<<w>>, k)) EXCEPT ![<<w>>[k].store] = EmptyStore]}
      BY <2>2 DEF save_fails
    <3>2. k = 1 /\ <<w>>[k].store = "workloads"
      BY <1>1, <1>4
    <3>3. disk' \in {disk, Empty}
      BY <1>2, <1>7, <3>1, <3>2
    <3>4. mem' \in {mem, After}
      BY <1>2, <2>2 DEF save_fails
    <3> QED BY <3>3, <3>4
  <2>3. CASE dies(p, <<w>>)
    <3>1. PICK k \in 0 .. Len(<<w>>) :
             \/ disk' = apply(disk, SubSeq(<<w>>, 1, k))
             \/ /\ k < Len(<<w>>)
                /\ disk' = [apply(disk, SubSeq(<<w>>, 1, k)) EXCEPT ![<<w>>[k + 1].store] = EmptyStore]
      BY <2>3 DEF dies
    <3>2. ASSUME k = 0 PROVE disk' \in {disk, Empty}
      <4>1. <<w>>[k + 1].store = "workloads"
        BY <1>1, <1>4, <3>2
      <4> QED BY <1>2, <1>5, <3>1, <3>2, <4>1, Zenon
    <3>3. ASSUME k = 1 PROVE disk' = After
      <4>1. ~ (k < Len(<<w>>)) /\ SubSeq(<<w>>, 1, k) = <<w>>
        BY <1>4, <1>6, <3>3
      <4> QED BY <1>2, <3>1, <4>1, Zenon
    <3>4. disk' \in {disk, After, Empty}
      BY <1>4, <3>2, <3>3
    <3>5. mem' \in {mem, disk'}
      BY <2>3 DEF dies
    <3> QED BY <3>4, <3>5
  <2> QED BY <1>1, <2>1, <2>2, <2>3 DEF commit
<1>9. OneMap(disk') /\ disk'.workloads \in {mem.workloads, disk.workloads, m, EmptyStore}
  BY <1>3, <1>8
<1>10. OneMap(mem') /\ mem'.workloads \in {mem.workloads, disk.workloads, m, EmptyStore}
  BY <1>3, <1>8, <1>9
<1> QED BY <1>9, <1>10 DEF Among

LEMMA CommitNothing ==
    ASSUME OneMap(mem), OneMap(disk), NEW p, NEW answer,
           commit(p, <<>>, answer)
    PROVE  Among(EmptyStore)
<1>1. apply(mem, <<>>) = mem /\ apply(disk, <<>>) = disk
  BY ApplyWrite
<1>2. Len(<<>>) = 0 /\ DOMAIN <<>> = {} /\ 0 .. 0 = {0}
  OBVIOUS
<1>3. SubSeq(<<>>, 1, 0) = <<>>
  BY SubSeqEmpty
<1>4. CASE save(p, <<>>, answer)
  BY <1>1, <1>4 DEF save, Among
<1>5. CASE save_fails(p, <<>>, answer)
  BY <1>2, <1>5 DEF save_fails
<1>6. CASE dies(p, <<>>)
  <2>1. PICK k \in 0 .. Len(<<>>) :
           \/ disk' = apply(disk, SubSeq(<<>>, 1, k))
           \/ /\ k < Len(<<>>)
              /\ disk' = [apply(disk, SubSeq(<<>>, 1, k)) EXCEPT ![<<>>[k + 1].store] = EmptyStore]
    BY <1>6 DEF dies
  <2>2. k = 0 /\ ~ (k < Len(<<>>))
    BY <1>2
  <2>3. disk' = disk
    BY <1>1, <1>3, <2>1, <2>2, Zenon
  <2>4. mem' \in {mem, disk'}
    BY <1>6 DEF dies
  <2> QED BY <2>3, <2>4 DEF Among
<1> QED BY <1>4, <1>5, <1>6 DEF commit

\* Both maps tell the truth after the step, when the old ones do of its containers.
LEMMA AmongTold ==
    ASSUME NEW m, Among(m), NEW cs, NEW k, Told(mem.workloads, cs, k), Told(disk.workloads, cs, k),
           Told(m, cs, k)
    PROVE  /\ OneMap(mem') /\ OneMap(disk')
           /\ Told(mem'.workloads, cs, k) /\ Told(disk'.workloads, cs, k)
<1>1. \A x \in {mem.workloads, disk.workloads, m, EmptyStore} : Told(x, cs, k)
  BY NothingTold
<1> QED BY <1>1, Zenon DEF Among

LEMMA ViewTold ==
    ASSUME NEW p, NEW cs, NEW k, Told(mem.workloads, cs, k), Told(disk.workloads, cs, k)
    PROVE  Told(view(p).workloads, cs, k)
BY DEF view

\* Nothing is recorded; containers may end.
LEMMA Unrecorded ==
    ASSUME WorkloadsHold, UNCHANGED <<mem, disk>>, Quieter(containers', containers),
           net' = net, runs' = runs
    PROVE  WorkloadsHold'
<1>1. /\ ContainersHold(containers', runs) /\ Told(mem.workloads, containers', runs)
      /\ Told(disk.workloads, containers', runs)
  BY QuieterHolds DEF WorkloadsHold
<1> QED BY <1>1, Zenon DEF WorkloadsHold

LEMMA SameContainers == ASSUME NEW cs PROVE Quieter(cs, cs)
BY DEF Quieter

\* The next workload's container, whose address no container has that is up.
LEMMA ContainerAdded ==
    ASSUME NEW cs, NEW k \in Nat, ContainersHold(cs, k), NEW e,
           DOMAIN e = {"name", "ip", "status"}, e.status # "stopped",
           e.ip # {} => \A c \in DOMAIN cs : cs[c].status # "exited" => cs[c].ip # e.ip
    PROVE  ContainersHold(cs, k + 1) /\ ContainersHold(Put(cs, k + 1, e), k + 1)
<1> DEFINE w == k + 1
           ds == Put(cs, w, e)
<1>1. DOMAIN ds = DOMAIN cs \cup {w} /\ ds[w] = e /\ \A c \in DOMAIN cs : c # w => ds[c] = cs[c]
  BY DEF Put
<1>2. 1 .. k \subseteq 1 .. w /\ w \in 1 .. w /\ w \notin 1 .. k
  OBVIOUS
<1> HIDE DEF w, ds
<1>3. ContainersHold(cs, w)
  BY <1>2 DEF ContainersHold
<1>4. DOMAIN ds \subseteq 1 .. w
  BY <1>1, <1>2 DEF ContainersHold
<1>5. \A c \in DOMAIN ds : c = w \/ (c \in DOMAIN cs /\ ds[c] = cs[c])
  BY <1>1
<1>6. \A c \in DOMAIN ds : DOMAIN ds[c] = {"name", "ip", "status"} /\ ds[c].status # "stopped"
  BY <1>1, <1>5, Zenon DEF ContainersHold
<1>7. ASSUME NEW c \in DOMAIN ds, NEW d \in DOMAIN ds, c # d, ds[c].ip # {},
             ds[c].status # "exited", ds[d].status # "exited"
      PROVE  ds[c].ip # ds[d].ip
  <2>1. CASE c \in DOMAIN cs /\ ds[c] = cs[c] /\ d \in DOMAIN cs /\ ds[d] = cs[d]
    BY <1>7, <2>1, Zenon DEF ContainersHold
  <2>2. CASE c = w /\ d \in DOMAIN cs /\ ds[d] = cs[d]
    BY <1>1, <1>7, <2>2, Zenon
  <2>3. CASE c \in DOMAIN cs /\ ds[c] = cs[c] /\ d = w
    BY <1>1, <1>7, <2>3, Zenon
  <2> QED BY <1>5, <1>7, <2>1, <2>2, <2>3, Zenon
<1>8. ContainersHold(ds, w)
  BY <1>4, <1>6, <1>7 DEF ContainersHold
<1> QED BY <1>3, <1>8 DEF ds, w

\* with_ip.
LEMMA WithIpHolds ==
    ASSUME NetHolds(net, runs), runs \in Nat, NEW p
    PROVE  NetHolds(with_ip(p, runs + 1), runs + 1)
BY AllocateHolds, NetLater DEF with_ip

\* run_succeeds.
LEMMA RunSucceeds ==
    ASSUME WorkloadsHold, NEW p, NEW name, NEW detach, run_succeeds(p, name, detach), runs' = runs + 1
    PROVE  WorkloadsHold'
<1> DEFINE w == runs + 1
           n == with_ip(p, w)
           ip == IF p = "daemon" THEN address(n, w) ELSE {}
           r == [container_id |-> IF detach THEN w ELSE NoContainer, state |-> "running"]
           m == Put(view(p).workloads, w, r)
           e(own) == [name |-> IF Sdk THEN {} ELSE name, ip |-> own,
                      status |-> IF detach THEN "running" ELSE "exited"]
<1>1. /\ runs \in Nat /\ w \in Nat /\ NoContainer \in 0 .. w /\ w \in 0 .. w
      /\ OneMap(mem) /\ OneMap(disk)
      /\ NetHolds(net, runs) /\ ContainersHold(containers, runs)
      /\ Told(mem.workloads, containers, runs) /\ Told(disk.workloads, containers, runs)
  BY DEF WorkloadsHold, NoContainer
<1>2. NetHolds(n, w)
  BY <1>1, WithIpHolds
<1>3. /\ Sdk \/ ~ taken(name, ip)
      /\ net' = IF Sdk /\ ip # {} THEN track_container(n, w, w) ELSE n
      /\ \E a : commit(p, write("workloads", m), a)
  BY DEF run_succeeds, WorkloadStore_upsert
<1>4. PICK own \in held(ip) : containers' = Put(containers, w, e(own))
  BY Zenon DEF run_succeeds
<1> HIDE DEF n, ip
<1>5. NetHolds(net', w)
  BY <1>2, <1>3, TrackHolds, Zenon DEF track_container
<1>6. own = {} \/ \E x : ~ taken(x, own)
  BY <1>3, <1>4, Zenon DEF held
<1>7. own # {} => \A c \in DOMAIN containers : containers[c].status # "exited" => containers[c].ip # own
  BY <1>6, Zenon DEF taken
<1>8. DOMAIN e(own) = {"name", "ip", "status"} /\ e(own).ip = own /\ e(own).status # "stopped"
  OBVIOUS
<1> HIDE DEF e
<1>9. ContainersHold(containers', w)
  BY <1>1, <1>4, <1>7, <1>8, ContainerAdded
<1>10. /\ Told(mem.workloads, containers', w) /\ Told(disk.workloads, containers', w)
  BY <1>1, <1>4, ToldBeside
<1>11. Told(m, containers', w)
  <2>1. Told(view(p).workloads, containers', w)
    BY <1>10, ViewTold
  <2>2. CASE detach
    BY <1>1, <2>1, <2>2, ToldNew
  <2>3. CASE ~ detach
    BY <1>1, <2>1, <2>3, ToldNew
  <2> QED BY <2>2, <2>3
<1> HIDE DEF m, w
<1>12. Among(m)
  BY <1>1, <1>3, CommitAmong
<1>13. /\ OneMap(mem') /\ OneMap(disk')
       /\ Told(mem'.workloads, containers', w) /\ Told(disk'.workloads, containers', w)
  BY <1>10, <1>11, <1>12, AmongTold
<1>14. runs' = w
  BY DEF w
<1> QED BY <1>1, <1>5, <1>9, <1>13, <1>14 DEF WorkloadsHold

\* workload.run.
LEMMA RunHolds ==
    ASSUME WorkloadsHold, NEW p, NEW name, NEW detach, workload_run(p, name, detach)
    PROVE  WorkloadsHold'
<1>1. /\ runs \in Nat /\ runs + 1 \in Nat /\ NetHolds(net, runs) /\ ContainersHold(containers, runs)
      /\ OneMap(mem) /\ OneMap(disk)
      /\ Told(mem.workloads, containers, runs) /\ Told(disk.workloads, containers, runs)
      /\ runs' = runs + 1
  BY DEF WorkloadsHold, workload_run
<1>2. /\ ContainersHold(containers, runs + 1)
      /\ Told(mem.workloads, containers, runs + 1) /\ Told(disk.workloads, containers, runs + 1)
  <2>1. 1 .. runs \subseteq 1 .. (runs + 1)
    BY <1>1
  <2>2. ContainersHold(containers, runs + 1)
    BY <1>1, <2>1 DEF ContainersHold
  <2> QED BY <1>1, <2>2, ToldBeside
<1>3. NetHolds(net, runs + 1) /\ NetHolds(with_ip(p, runs + 1), runs + 1)
  BY <1>1, NetLater, WithIpHolds
<1>4. NetHolds(release_ip(with_ip(p, runs + 1), runs + 1), runs + 1)
  BY <1>3, ReleaseHolds
<1>5. ASSUME UNCHANGED <<mem, disk, containers>>, NetHolds(net', runs + 1) PROVE WorkloadsHold'
  BY <1>1, <1>2, <1>5 DEF WorkloadsHold
<1>6. CASE respond(Err("workload.run")) /\ UNCHANGED <<containers, net>>
  BY <1>3, <1>5, <1>6 DEF respond
<1>7. CASE run_succeeds(p, name, detach \/ Sdk)
  BY <1>1, <1>7, RunSucceeds
<1>8. CASE run_fails(p, name)
  <2>1. UNCHANGED <<mem, disk>> /\ NetHolds(net', runs + 1)
    BY <1>3, <1>4, <1>8 DEF run_fails, respond
  <2>2. CASE UNCHANGED containers
    BY <1>5, <2>1, <2>2
  <2>3. CASE containers' = Put(containers, runs + 1, left_behind(name))
    <3>1. /\ DOMAIN left_behind(name) = {"name", "ip", "status"}
          /\ left_behind(name).ip = {} /\ left_behind(name).status # "stopped"
      BY DEF left_behind
    <3>2. ContainersHold(containers', runs + 1)
      BY <1>1, <2>3, <3>1, ContainerAdded
    <3>3. Told(mem.workloads, containers', runs + 1) /\ Told(disk.workloads, containers', runs + 1)
      BY <1>1, <2>3, ToldBeside
    <3> QED BY <1>1, <2>1, <3>2, <3>3 DEF WorkloadsHold
  <2> QED BY <1>8, <2>2, <2>3 DEF run_fails
<1>9. CASE run_not_executed(p)
  BY <1>3, <1>5, <1>9 DEF run_not_executed, respond
<1> QED BY <1>6, <1>7, <1>8, <1>9 DEF workload_run

\* stop_succeeds: the container that the target names has ended, and of the records only
\* that of its workload says so.
LEMMA StopSucceeds ==
    ASSUME WorkloadsHold, NEW p, NEW t \in [id : Workloads] \cup [name : ContainerNames],
           stop_succeeds(p, t), runs' = runs
    PROVE  WorkloadsHold'
<1>1. /\ OneMap(mem) /\ OneMap(disk) /\ runs \in Nat
      /\ NetHolds(net, runs) /\ ContainersHold(containers, runs)
      /\ Told(mem.workloads, containers, runs) /\ Told(disk.workloads, containers, runs)
  BY DEF WorkloadsHold
<1>2. PICK c \in targets(t) :
         /\ containers' = stopped(c)
         /\ net' = IF p = "daemon" /\ t = [id |-> c] THEN release_by_container(net, c) ELSE net
         /\ commit(p, stop_record(p, t), Ok("workload.stop", t))
  BY DEF stop_succeeds
<1>3. c \in DOMAIN containers /\ DOMAIN containers[c] = {"name", "ip", "status"}
  BY <1>1 DEF targets, ContainersHold
<1>4. Quieter(containers', containers) /\ containers'[c].status = "exited"
  <2>1. [containers EXCEPT ![c].status = "exited"][c].status = "exited"
    BY <1>3
  <2> QED BY <1>1, <1>2, <1>3, <2>1, StatusQuieter, Zenon DEF stopped
<1>5. /\ ContainersHold(containers', runs) /\ Told(mem.workloads, containers', runs)
      /\ Told(disk.workloads, containers', runs)
  BY <1>1, <1>4, QuieterHolds
<1>6. NetHolds(net', runs)
  BY <1>1, <1>2, ReleaseByHolds
<1>7. ASSUME NEW m, Among(m), Told(m, containers', runs) PROVE WorkloadsHold'
  <2>1. /\ OneMap(mem') /\ OneMap(disk')
        /\ Told(mem'.workloads, containers', runs) /\ Told(disk'.workloads, containers', runs)
    BY <1>5, <1>7, AmongTold
  <2> QED BY <1>1, <1>5, <1>6, <2>1 DEF WorkloadsHold
<1>8. CASE \E d \in targets(t) : t = [id |-> d] /\ find_by_container_id(p, d) # {}
  <2>1. PICK d \in targets(t) : t = [id |-> d] /\ find_by_container_id(p, d) # {}
    BY <1>8
  <2>2. ASSUME NEW b \in targets(t) PROVE b = d
    <3>1. t.id = d /\ DOMAIN t = {"id"}
      BY <2>1
    <3>2. \A x : t # [name |-> x]
      <4>1. \A x : DOMAIN [name |-> x] = {"name"}
        OBVIOUS
      <4>2. {"id"} # {"name"}
        OBVIOUS
      <4> QED BY <3>1, <4>1, <4>2, Zenon
    <3>3. t = [id |-> b]
      BY <2>2, <3>2, Zenon DEF targets
    <3> QED BY <3>1, <3>3
  <2>3. (CHOOSE b \in targets(t) : TRUE) = c
    <3>1. (CHOOSE b \in targets(t) : TRUE) \in targets(t)
      BY <1>2
    <3> QED BY <1>2, <2>2, <3>1, Zenon
  <2>4. c = d
    BY <1>2, <2>2
  <2> DEFINE w == CHOOSE w \in find_by_container_id(p, c) : TRUE
             m == update_state(view(p).workloads, w, "stopped")
  <2>5. w \in find_by_container_id(p, c)
    BY <2>1, <2>4
  <2>6. stop_record(p, t) = write("workloads", m)
    BY <1>8, <2>3, Zenon DEF stop_record
  <2> HIDE DEF w
  <2>7. w \in DOMAIN view(p).workloads /\ view(p).workloads[w].container_id = c
    BY <2>5 DEF find_by_container_id
  <2>8. Told(view(p).workloads, containers', runs)
    BY <1>5, ViewTold
  <2>9. \A b \in DOMAIN containers' :
           b = view(p).workloads[w].container_id => containers'[b].status = "exited"
    BY <1>4, <2>7
  <2>10. Told(m, containers', runs)
    BY <2>7, <2>8, <2>9, ToldStopped
  <2> HIDE DEF m
  <2>11. Among(m)
    BY <1>1, <1>2, <2>6, CommitAmong
  <2> QED BY <1>7, <2>10, <2>11
<1>9. CASE ~ \E d \in targets(t) : t = [id |-> d] /\ find_by_container_id(p, d) # {}
  <2>1. stop_record(p, t) = <<>>
    BY <1>9, Zenon DEF stop_record
  <2>2. Among(EmptyStore)
    BY <1>1, <1>2, <2>1, CommitNothing
  <2> QED BY <1>7, <2>2, NothingTold
<1> QED BY <1>8, <1>9

\* node.drain.
LEMMA DrainHolds == ASSUME WorkloadsHold, node_drain PROVE WorkloadsHold'
<1>1. PICK some \in SUBSET {c \in DOMAIN containers : containers[c].status = "running"} :
         containers' = [c \in DOMAIN containers |->
                           IF c \in some THEN [containers[c] EXCEPT !.status = "exited"]
                           ELSE containers[c]]
  BY DEF node_drain
<1>2. \A c \in DOMAIN containers : DOMAIN containers[c] = {"name", "ip", "status"}
  BY DEF WorkloadsHold, ContainersHold
<1>3. ASSUME NEW c \in DOMAIN containers
      PROVE  /\ DOMAIN containers'[c] = DOMAIN containers[c] /\ containers'[c].ip = containers[c].ip
             /\ containers'[c].status # "exited" => containers[c].status # "exited"
             /\ containers[c].status # "stopped" => containers'[c].status # "stopped"
  <2>1. CASE c \in some
    <3>1. containers'[c] = [containers[c] EXCEPT !.status = "exited"]
      BY <1>1, <2>1
    <3>2. DOMAIN containers[c] = {"name", "ip", "status"}
      BY <1>2
    <3> QED BY <3>1, <3>2
  <2>2. CASE c \notin some
    BY <1>1, <2>2
  <2> QED BY <2>1, <2>2
<1>4. DOMAIN containers' = DOMAIN containers
  BY <1>1
<1>5. Quieter(containers', containers)
  BY <1>3, <1>4, Zenon DEF Quieter
<1> QED BY <1>5, Unrecorded DEF node_drain, respond

\* Containers pause, continue, end and are removed by themselves.
LEMMA ChangesHold == ASSUME WorkloadsHold, container_changes PROVE WorkloadsHold'
<1>1. ContainersHold(containers, runs)
  BY DEF WorkloadsHold
<1>2. PICK c \in DOMAIN containers :
         \/ /\ containers[c].status \in {"running", "paused"}
            /\ \E s \in {"running", "exited", "paused"} : containers' = [containers EXCEPT ![c].status = s]
         \/ containers' = Drop(containers, c)
  BY DEF container_changes
<1>3. CASE /\ containers[c].status \in {"running", "paused"}
           /\ \E s \in {"running", "exited", "paused"} : containers' = [containers EXCEPT ![c].status = s]
  <2>1. PICK s \in {"running", "exited", "paused"} : containers' = [containers EXCEPT ![c].status = s]
    BY <1>3, Zenon
  <2>2. containers[c].status # "exited" /\ s # "stopped"
    BY <1>3
  <2>3. Quieter(containers', containers)
    BY <1>1, <2>1, <2>2, StatusQuieter, Zenon
  <2> QED BY <2>3, Unrecorded DEF container_changes, respond
<1>4. CASE containers' = Drop(containers, c)
  <2>1. Quieter(containers', containers)
    BY <1>4 DEF Drop, Quieter
  <2> QED BY <2>1, Unrecorded DEF container_changes, respond
<1> QED BY <1>2, <1>3, <1>4

\* What the startup makes of a record.
LEMMA ReconciledOne ==
    ASSUME NEW record, DOMAIN record = {"container_id", "state"}, NEW q \in reconciled(record)
    PROVE  /\ DOMAIN q = {"container_id", "state"} /\ q.container_id = record.container_id
           /\ q.state = "running" => /\ q.container_id \in DOMAIN containers
                                     /\ containers[q.container_id].status = "running"
           /\ q.state = "stopped" => \/ record.state = "stopped"
                                     \/ /\ q.container_id \in DOMAIN containers
                                        /\ containers[q.container_id].status = "stopped"
<1> DEFINE c == record.container_id
<1>1. \A x : /\ DOMAIN [record EXCEPT !.state = x] = {"container_id", "state"}
             /\ [record EXCEPT !.state = x].container_id = c /\ [record EXCEPT !.state = x].state = x
  OBVIOUS
<1>2. CASE record.state # "running" \/ c \notin DOMAIN containers
  <2> DEFINE x == IF record.state = "running" THEN "exited" ELSE record.state
  <2>1. q = [record EXCEPT !.state = x]
    BY <1>2 DEF reconciled
  <2>2. x # "running" /\ (x = "stopped" => record.state = "stopped")
    OBVIOUS
  <2> HIDE DEF x
  <2> QED BY <1>1, <2>1, <2>2
<1>3. CASE ~ (record.state # "running" \/ c \notin DOMAIN containers)
  <2>1. q = [record EXCEPT !.state = containers[c].status] \/ q = [record EXCEPT !.state = "exited"]
    BY <1>3 DEF reconciled
  <2> HIDE DEF c
  <2>2. CASE q = [record EXCEPT !.state = containers[c].status]
    BY <1>1, <1>3, <2>2
  <2>3. CASE q = [record EXCEPT !.state = "exited"]
    BY <1>1, <2>3
  <2> QED BY <2>1, <2>2, <2>3
<1> QED BY <1>2, <1>3

\* The node is started.
LEMMA RestartHolds ==
    ASSUME WorkloadsHold, restart_and_reconcile
    PROVE  WorkloadsHold' /\ ReconciledTruly
<1>1. /\ runs \in Nat /\ ContainersHold(containers, runs) /\ Told(disk.workloads, containers, runs)
      /\ runs' = runs /\ containers' = containers
  BY DEF WorkloadsHold, restart_and_reconcile
<1>2. PICK after \in reconcile_workloads(disk.workloads) :
         mem' = [workloads |-> after] /\ disk' = [workloads |-> after]
  BY DEF restart_and_reconcile
<1> DEFINE m == disk.workloads
<1>3. DOMAIN after = DOMAIN m /\ \A w \in DOMAIN m : after[w] \in reconciled(m[w])
  BY <1>2 DEF reconcile_workloads
<1>4. OneMap(mem') /\ OneMap(disk')
      /\ mem'.workloads = after /\ disk'.workloads = after
  BY <1>2 DEF OneMap
<1>5. NetHolds(net', runs)
  BY <1>1, NewNetHolds DEF restart_and_reconcile
<1>6. \A w \in DOMAIN after : DOMAIN m[w] = {"container_id", "state"} /\ m[w].container_id \in 0 .. runs
  BY <1>1, <1>3, Zenon DEF Told
<1>7. Told(after, containers, runs)
  <2> SUFFICES ASSUME NEW w \in DOMAIN after
               PROVE  /\ DOMAIN after[w] = {"container_id", "state"}
                      /\ after[w].container_id \in 0 .. runs
                      /\ after[w].state = "stopped"
                         => \A c \in DOMAIN containers : c = after[w].container_id
                                                         => containers[c].status = "exited"
    BY Zenon DEF Told
  <2>1. /\ DOMAIN after[w] = {"container_id", "state"} /\ after[w].container_id = m[w].container_id
        /\ after[w].state = "stopped" => \/ m[w].state = "stopped"
                                         \/ /\ after[w].container_id \in DOMAIN containers
                                            /\ containers[after[w].container_id].status = "stopped"
    <3>1. DOMAIN m[w] = {"container_id", "state"} /\ after[w] \in reconciled(m[w])
      BY <1>3, <1>6, Zenon
    <3> QED BY <3>1, ReconciledOne, Zenon
  <2>2. m[w].state = "stopped" => \A c \in DOMAIN containers : c = m[w].container_id
                                                               => containers[c].status = "exited"
    BY <1>1, <1>3 DEF Told
  <2>3. \A c \in DOMAIN containers : containers[c].status # "stopped"
    BY <1>1 DEF ContainersHold
  <2> QED BY <1>6, <2>1, <2>2, <2>3
<1>8. \A w \in running(mem'.workloads) :
         \E c \in DOMAIN containers : /\ c = mem'.workloads[w].container_id
                                      /\ containers[c].status = "running"
  <2> SUFFICES ASSUME NEW w \in running(after)
               PROVE  \E c \in DOMAIN containers : /\ c = after[w].container_id
                                                   /\ containers[c].status = "running"
    BY <1>4
  <2>1. w \in DOMAIN after /\ after[w].state = "running"
    BY DEF running
  <2>2. /\ after[w].container_id \in DOMAIN containers
        /\ containers[after[w].container_id].status = "running"
    <3>1. DOMAIN m[w] = {"container_id", "state"} /\ after[w] \in reconciled(m[w])
      BY <1>3, <1>6, <2>1, Zenon
    <3> QED BY <2>1, <3>1, ReconciledOne, Zenon
  <2> QED BY <2>2
<1>9. WorkloadsHold'
  BY <1>1, <1>4, <1>5, <1>7 DEF WorkloadsHold
<1> QED BY <1>8, <1>9 DEF ReconciledTruly

\* A command does not answer as a starting node does.
LEMMA CommandsAnswer ==
    ASSUME NEW c, c # "restart"
    PROVE  /\ \A p, writes, v : commit(p, writes, Ok(c, v)) => reply'.cmd # "restart"
           /\ \A p, writes : commit(p, writes, Err(c)) => reply'.cmd # "restart"
           /\ \A v : respond(Ok(c, v)) => reply'.cmd # "restart"
           /\ respond(Err(c)) => reply'.cmd # "restart"
<1>1. NoReply.cmd # "restart" /\ Err(c).cmd # "restart" /\ \A v : Ok(c, v).cmd # "restart"
  BY DEF NoReply, Err, Ok
<1>2. \A p, writes, a : commit(p, writes, a) => reply' \in {a, NoReply}
  BY DEF commit, save, save_fails, dies
<1>3. \A a : respond(a) => reply' = a
  BY DEF respond
<1> HIDE DEF NoReply, Err, Ok
<1> QED BY <1>1, <1>2, <1>3

\* A command of a process.
LEMMA CommandHolds ==
    ASSUME WorkloadsHold, NEW p, handle_command(p)
    PROVE  WorkloadsHold' /\ reply'.cmd # "restart"
<1>1. ASSUME UNCHANGED <<mem, disk, containers, net, runs>> PROVE WorkloadsHold'
  BY <1>1 DEF WorkloadsHold
<1>2. ASSUME NEW name, NEW detach, workload_run(p, name, detach)
      PROVE  WorkloadsHold' /\ reply'.cmd # "restart"
  <2>1. WorkloadsHold'
    BY <1>2, RunHolds
  <2>2. "workload.run" # "restart"
    OBVIOUS
  <2>3. reply'.cmd # "restart"
    BY <1>2, <2>2, CommandsAnswer, Zenon DEF workload_run, run_succeeds, run_fails, run_not_executed
  <2> QED BY <2>1, <2>3
<1>3. ASSUME NEW t \in [id : Workloads] \cup [name : ContainerNames], workload_stop(p, t)
      PROVE  WorkloadsHold' /\ reply'.cmd # "restart"
  <2>1. runs' = runs
    BY <1>3 DEF workload_stop
  <2>2. "workload.stop" # "restart"
    OBVIOUS
  <2>3. CASE stop_succeeds(p, t)
    BY <2>1, <2>2, <2>3, StopSucceeds, CommandsAnswer, Zenon DEF stop_succeeds
  <2>4. CASE respond(Err("workload.stop")) /\ UNCHANGED <<containers, net>>
    BY <1>1, <2>1, <2>2, <2>4, CommandsAnswer DEF respond
  <2> QED BY <1>3, <2>3, <2>4 DEF workload_stop
<1>4. ASSUME NEW c, NEW v, c # "restart", respond(Ok(c, v)) \/ respond(Err(c)),
             UNCHANGED <<containers, net, runs>>
      PROVE  WorkloadsHold' /\ reply'.cmd # "restart"
  <2>1. reply'.cmd # "restart"
    BY <1>4, CommandsAnswer
  <2> QED BY <1>1, <1>4, <2>1 DEF respond
<1>5. CASE workload_list /\ UNCHANGED <<containers, net, runs>>
  BY <1>4, <1>5 DEF workload_list
<1>6. ASSUME NEW t, workload_logs(t) \/ workload_inspect(t) \/ workload_stats(t) \/ container_exec(t),
             UNCHANGED <<containers, net, runs>>
      PROVE  WorkloadsHold' /\ reply'.cmd # "restart"
  <2>1. CASE workload_logs(t)
    BY <1>4, <1>6, <2>1 DEF workload_logs
  <2>2. CASE workload_inspect(t)
    BY <1>4, <1>6, <2>2 DEF workload_inspect
  <2>3. CASE workload_stats(t)
    BY <1>4, <1>6, <2>3 DEF workload_stats
  <2>4. CASE container_exec(t)
    BY <1>4, <1>6, <2>4 DEF container_exec
  <2> QED BY <1>6, <2>1, <2>2, <2>3, <2>4
<1>7. CASE node_drain
  <2>1. reply'.cmd # "restart"
    BY <1>7, CommandsAnswer, Zenon DEF node_drain
  <2> QED BY <1>7, <2>1, DrainHolds
<1> QED BY <1>2, <1>3, <1>5, <1>6, <1>7 DEF handle_command

LEMMA WorkloadStep ==
    ASSUME WorkloadsHold, WorkloadNext
    PROVE  WorkloadsHold' /\ ReconciledTruly
<1>1. CASE restart_and_reconcile
  BY <1>1, RestartHolds
<1>2. CASE container_changes
  <2>1. NoReply.cmd # "restart" /\ reply' = NoReply
    BY <1>2 DEF NoReply, container_changes, respond
  <2>2. reply'.cmd # "restart"
    BY <2>1
  <2> QED BY <1>2, <2>2, ChangesHold DEF ReconciledTruly
<1>3. CASE \E p \in Procs : handle_command(p)
  <2>1. WorkloadsHold' /\ reply'.cmd # "restart"
    BY <1>3, CommandHolds
  <2> QED BY <2>1 DEF ReconciledTruly
<1> QED BY <1>1, <1>2, <1>3 DEF WorkloadNext

LEMMA WorkloadStart == ASSUME WorkloadInit PROVE WorkloadsHold
<1>1. mem.workloads = EmptyStore /\ disk.workloads = EmptyStore
      /\ OneMap(mem) /\ OneMap(disk)
  BY DEF WorkloadInit, new, OneMap
<1>2. DOMAIN EmptyStore = {}
  BY EmptySeq DEF EmptyStore
<1>3. ContainersHold(containers, 0)
  BY <1>2 DEF WorkloadInit, ContainersHold
<1> QED BY <1>1, <1>3, NothingTold, NewNetHolds DEF WorkloadInit, WorkloadsHold

LEMMA WorkloadsTrue == ASSUME WorkloadsHold PROVE WorkloadRecordsTrue
<1>1. StoppedIsStopped
  BY DEF WorkloadsHold, Told, StoppedIsStopped
<1>2. ASSUME NEW s \in HostParts
      PROVE  Cardinality({w \in DOMAIN net.allocated_ips : net.allocated_ips[w] = s})
             + Cardinality({i \in DOMAIN net.free_pool : net.free_pool[i] = s})
             = IF s < net.next_ip THEN 1 ELSE 0
  <2>1. s \in Nat /\ 2 <= s
    BY WorkloadAssumption DEF HostParts
  <2>2. Accounted(net.allocated_ips, net.free_pool, net.next_ip)
    BY DEF WorkloadsHold, NetHolds
  <2> QED BY <2>1, <2>2, CountedOnce
<1>3. ASSUME NEW c \in DOMAIN containers, NEW d \in DOMAIN containers, c # d,
             containers[c].ip # {}, containers[c].status = "running", containers[d].status = "running"
      PROVE  containers[c].ip # containers[d].ip
  <2>1. containers[c].status # "exited" /\ containers[d].status # "exited"
    BY <1>3
  <2> QED BY <1>3, <2>1, Zenon DEF WorkloadsHold, ContainersHold
<1>4. AddressesAccounted
  BY <1>2, <1>3, Zenon DEF AddressesAccounted
<1> QED BY <1>1, <1>4 DEF WorkloadRecordsTrue

\* Through runs, failed runs, stops by id or name, drains, crashes and restarts, with any
\* processes and faults, either runtime and any subnet: what is recorded as stopped does
\* not run, every address is held by one workload or free once, and no two running
\* containers have the same one (workload.run, workload.stop, release_ip).
THEOREM WorkloadRecords == WorkloadSpec => []WorkloadRecordsTrue
<1>1. WorkloadInit => WorkloadsHold
  BY WorkloadStart
<1>2. WorkloadsHold /\ [WorkloadNext]_workload_vars => WorkloadsHold'
  <2> SUFFICES ASSUME WorkloadsHold, [WorkloadNext]_workload_vars PROVE WorkloadsHold'
    OBVIOUS
  <2>1. CASE WorkloadNext
    BY <2>1, WorkloadStep
  <2>2. CASE UNCHANGED workload_vars
    BY <2>2 DEF workload_vars, store_vars, WorkloadsHold
  <2> QED BY <2>1, <2>2
<1>3. WorkloadsHold => WorkloadRecordsTrue
  BY WorkloadsTrue
<1> QED BY <1>1, <1>2, <1>3, PTL DEF WorkloadSpec

\* A node that starts records as running only workloads whose container runs at that
\* moment, whatever the records said and whichever inspections fail
\* (reconcile_workloads).
THEOREM StartupRecords == WorkloadSpec => [][ReconciledTruly]_workload_vars
<1>1. WorkloadInit => WorkloadsHold
  BY WorkloadStart
<1>2. WorkloadsHold /\ [WorkloadNext]_workload_vars => WorkloadsHold'
  <2> SUFFICES ASSUME WorkloadsHold, [WorkloadNext]_workload_vars PROVE WorkloadsHold'
    OBVIOUS
  <2>1. CASE WorkloadNext
    BY <2>1, WorkloadStep
  <2>2. CASE UNCHANGED workload_vars
    BY <2>2 DEF workload_vars, store_vars, WorkloadsHold
  <2> QED BY <2>1, <2>2
<1>3. WorkloadsHold /\ [WorkloadNext]_workload_vars => [ReconciledTruly]_workload_vars
  BY WorkloadStep
<1> QED BY <1>1, <1>2, <1>3, PTL DEF WorkloadSpec
=============================================================================
