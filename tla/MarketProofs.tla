---------------------------- MODULE MarketProofs ----------------------------
(***************************************************************************)
(* Proofs about trading: the order book and its settlements, the escrow    *)
(* accounts, and what a provider proves about itself.                      *)
(***************************************************************************)
EXTENDS Marketplace, Attestation, SequenceTheorems, TLAPS

-----------------------------------------------------------------------------
(***************************************************************************)
(* The marketplace's escrow account keeps the promise of an escrow, and an *)
(* overdue account only expires, for every set of accounts and parties,    *)
(* every timeout and every order of calls.                                 *)
(***************************************************************************)

\* A new account has its types.
LEMMA InitType == Init => TypeOK
BY PartyAssumption DEF Init, TypeOK, MarketState

\* transition_to either leaves an account alone or makes a legal transition.
LEMMA Transition ==
    ASSUME TypeOK, NEW e \in Escrows, NEW target \in MarketState, transition_to(e, target)
    PROVE  /\ state' \in [Escrows -> MarketState]
           /\ \/ state' = state
              \/ /\ can_transition_to(state[e], target)
                 /\ state' = [state EXCEPT ![e] = target]
BY DEF TypeOK, transition_to

\* Every step that changes the states is the legal transition of one account.
LEMMA StepTransition ==
    ASSUME TypeOK, [Next]_vars
    PROVE  \/ state' = state
           \/ \E e \in Escrows, target \in MarketState :
                 /\ can_transition_to(state[e], target)
                 /\ state' = [state EXCEPT ![e] = target]
<1>1. \A s \in {"Funded", "Released", "Refunded", "Disputed", "Expired"} : s \in MarketState
  BY DEF MarketState
<1>2. CASE Tick \/ UNCHANGED vars
  BY <1>2 DEF Tick, vars
<1>3. ASSUME NEW e \in Escrows, NEW target \in MarketState, transition_to(e, target)
      PROVE  \/ state' = state
             \/ \E f \in Escrows, t \in MarketState :
                   /\ can_transition_to(state[f], t)
                   /\ state' = [state EXCEPT ![f] = t]
  BY <1>3, Transition
<1> QED BY <1>1, <1>2, <1>3 DEF Next, fund, release, refund, dispute, expire

\* Every method keeps the types.
LEMMA NextType == TypeOK /\ [Next]_vars => TypeOK'
<1> SUFFICES ASSUME TypeOK, [Next]_vars PROVE TypeOK'
  OBVIOUS
<1>1. state' \in [Escrows -> MarketState]
  BY StepTransition DEF TypeOK
<1>2. CASE UNCHANGED vars
  BY <1>2 DEF TypeOK, vars
<1>3. CASE Tick
  BY <1>3, PartyAssumption DEF TypeOK, Tick
<1>4. ASSUME NEW e \in Escrows, expire(e) PROVE TypeOK'
  BY <1>1, <1>4 DEF TypeOK, expire
<1>5. ASSUME NEW e \in Escrows, NEW c \in Parties, fund(e, c) \/ release(e, c) \/ refund(e, c)
      PROVE  TypeOK'
  BY <1>1, <1>5 DEF TypeOK, fund, release, refund
<1>6. ASSUME NEW e \in Escrows, NEW c \in Parties, dispute(e, c)
      PROVE  TypeOK'
  BY <1>1, <1>6 DEF TypeOK, dispute
<1> QED BY <1>2, <1>3, <1>4, <1>5, <1>6 DEF Next

\* The accounts keep their types.
LEMMA TypeCorrect == Spec => []TypeOK
BY InitType, NextType, PTL DEF Spec

-----------------------------------------------------------------------------
\* A step of the account is a step of the promise, or leaves the custody alone.
LEMMA CustodyStep ==
    ASSUME TypeOK, NEW e \in Escrows, NEW t \in MarketState,
           can_transition_to(state[e], t), state' = [state EXCEPT ![e] = t]
    PROVE  Promise!Next \/ custody' = custody
<1>1. /\ state'[e] = t
      /\ \A f \in Escrows : f # e => state'[f] = state[f]
  BY DEF TypeOK
<1>2. /\ custody'[e] = custody_in(t) /\ custody[e] = custody_in(state[e])
      /\ \A f \in Escrows : f # e => custody'[f] = custody[f]
  BY <1>1 DEF custody
<1>3. custody = [f \in Escrows |-> custody[f]] /\ custody' = [f \in Escrows |-> custody'[f]]
  BY DEF custody
<1> HIDE DEF custody
<1>4. custody' = [custody EXCEPT ![e] = custody_in(t)]
  BY <1>2, <1>3
<1>5. CASE state[e] = "Created" /\ t = "Funded"
  <2>1. custody[e] = "unfunded" /\ custody_in(t) = "held"
    BY <1>2, <1>5 DEF custody_in
  <2> QED BY <1>4, <2>1, Zenon DEF Promise!Next, Promise!Fund
<1>6. CASE state[e] = "Funded" /\ t = "Disputed"
  <2>1. custody_in(t) = custody[e]
    BY <1>2, <1>6 DEF custody_in
  <2> QED BY <1>3, <1>4, <2>1
<1>7. CASE state[e] \in {"Funded", "Disputed"} /\ t = "Released"
  <2>1. custody[e] = "held" /\ custody_in(t) = "provider"
    BY <1>2, <1>7 DEF custody_in
  <2> QED BY <1>4, <2>1, Zenon DEF Promise!Next, Promise!PayProvider
<1>8. CASE state[e] \in {"Funded", "Disputed"} /\ t \in {"Refunded", "Expired"}
  <2>1. custody[e] = "held" /\ custody_in(t) = "buyer"
    BY <1>2, <1>8 DEF custody_in
  <2> QED BY <1>4, <2>1, Zenon DEF Promise!Next, Promise!PayBuyer
<1> QED BY <1>5, <1>6, <1>7, <1>8 DEF can_transition_to

\* EscrowAccount (molt-market/src/escrow.rs) implements the abstract escrow: funds
\* leave an account at most once and to one party, whoever calls what and when.
THEOREM AccountKeepsPromise == Spec => KeepsPromise
<1>1. Init => Promise!Init
  BY DEF Init, Promise!Init, custody, custody_in
<1>2. TypeOK /\ [Next]_vars => [Promise!Next]_custody
  <2> SUFFICES ASSUME TypeOK, [Next]_vars PROVE Promise!Next \/ custody' = custody
    OBVIOUS
  <2>1. CASE state' = state
    BY <2>1 DEF custody
  <2> QED BY <2>1, StepTransition, CustodyStep
<1> QED BY <1>1, <1>2, TypeCorrect, PTL DEF Spec, KeepsPromise, Promise!Spec

\* Past its timeout a funded or disputed account is moved by expire() alone: a
\* release, a refund and a dispute are refused (check_not_expired, escrow.rs).
THEOREM OverdueExpires == Spec => [][OverdueOnlyExpires]_vars
<1>1. TypeOK /\ [Next]_vars => [OverdueOnlyExpires]_vars
  <2> SUFFICES ASSUME TypeOK, Next, NEW e \in Escrows, live(e), is_expired(e)
               PROVE  state'[e] \in {state[e], "Expired"} /\ disputed_by'[e] = disputed_by[e]
    BY DEF OverdueOnlyExpires
  <2>1. CASE Tick
    BY <2>1 DEF Tick
  <2>2. ASSUME NEW f \in Escrows, expire(f)
        PROVE  state'[e] \in {state[e], "Expired"} /\ disputed_by'[e] = disputed_by[e]
    BY <2>2 DEF expire, transition_to, TypeOK
  <2>3. ASSUME NEW f \in Escrows, NEW c \in Parties,
               fund(f, c) \/ release(f, c) \/ refund(f, c) \/ dispute(f, c)
        PROVE  state'[e] = state[e] /\ disputed_by'[e] = disputed_by[e]
    <3>1. f # e
      BY <2>3 DEF fund, release, refund, dispute, check_not_expired
    <3> QED BY <2>3, <3>1 DEF fund, release, refund, dispute, transition_to, TypeOK
  <2> QED BY <2>1, <2>2, <2>3 DEF Next
<1> QED BY <1>1, TypeCorrect, PTL DEF Spec

-----------------------------------------------------------------------------
(***************************************************************************)
(* The book: jobs are settled in full and the ranking is fair, for every   *)
(* set of orders and offers.                                               *)
(***************************************************************************)

BookShape == /\ \A o \in DOMAIN orders : orders[o] \in JobOrder
             /\ \A f \in DOMAIN offers : offers[f] \in CapacityOffer

LEMMA BookStep == BookShape /\ [BookNext]_book_vars => BookShape'
<1> SUFFICES ASSUME BookShape, [BookNext]_book_vars PROVE BookShape'
  OBVIOUS
<1> USE DEF BookShape
<1>1. ASSUME NEW id \in OrderIds, NEW o \in JobOrder, insert_order(id, o) PROVE BookShape'
  BY <1>1 DEF insert_order, Put
<1>2. ASSUME NEW id \in OfferIds, NEW o \in CapacityOffer, insert_offer(id, o) PROVE BookShape'
  BY <1>2 DEF insert_offer, Put
<1>3. ASSUME NEW id, remove_order(id) \/ remove_offer(id) PROVE BookShape'
  BY <1>3 DEF remove_order, remove_offer, Without
<1>4. CASE UNCHANGED book_vars
  BY <1>4 DEF book_vars
<1> QED BY <1>1, <1>2, <1>3, <1>4 DEF BookNext

\* Multiplication is monotone.
LEMMA TimesMonotone ==
    ASSUME NEW a \in Nat, NEW b \in Nat, NEW c \in Nat, a <= b
    PROVE  a * c <= b * c
OBVIOUS

\* A division that rounds up loses nothing.
LEMMA RoundsUp ==
    ASSUME NEW n \in Nat, NEW s \in Nat \ {0}
    PROVE  /\ (n + s - 1) \div s \in Nat
           /\ ((n + s - 1) \div s) * s >= n
OBVIOUS

LEMMA ModSmall ==
    ASSUME NEW n \in Nat, NEW s \in Nat \ {0}, n < s
    PROVE  n % s = n
OBVIOUS
LEMMA DivMonotone ==
    ASSUME NEW a \in Nat, NEW b \in Nat, a <= b
    PROVE  a \div 10 \in Nat /\ b \div 10 \in Nat /\ a \div 10 <= b \div 10
OBVIOUS

\* Factors may be taken in any order.
LEMMA TimesCommute ==
    ASSUME NEW a \in Nat, NEW b \in Nat, NEW c \in Nat
    PROVE  a * b \in Nat /\ a * b = b * a /\ (a * b) * c = (a * c) * b
OBVIOUS

\* settle_job pays in full, from an escrow that covers the hours, for every time within
\* them.
LEMMA PaidInFull ==
    ASSUME NEW hours \in Nat, NEW rate \in Nat, NEW budget \in 0 .. U64 - 1,
           rate * hours <= budget, NEW d \in 0 .. hours * SECONDS_PER_HOUR
    PROVE  settle_job(d, rate, budget) * SECONDS_PER_HOUR >= d * rate
<1> DEFINE s == SECONDS_PER_HOUR
           paid == (d * rate + s - 1) \div s
<1>1. s \in Nat \ {0} /\ U64 \in Nat \ {0} /\ d \in Nat /\ d * rate \in Nat
  BY BookAssumption
<1>2. paid \in Nat /\ paid * s >= d * rate
  BY <1>1, RoundsUp
<1>3. budget * s >= d * rate
  <2>1. d * rate <= (hours * s) * rate
    BY <1>1, TimesMonotone
  <2>2. (hours * s) * rate = (rate * hours) * s
    BY <1>1, TimesCommute
  <2>3. (rate * hours) * s <= budget * s
    BY <1>1, TimesMonotone
  <2> QED BY <1>1, <2>1, <2>2, <2>3
<1>4. settle_job(d, rate, budget) \in {paid, budget}
  BY <1>1, <1>2 DEF settle_job, calculate_payment
<1> HIDE DEF paid
<1> QED BY <1>2, <1>3, <1>4

\* An offer that is no dearer and no less reputable has no lower score.
LEMMA ScoreMonotone ==
    ASSUME NEW f \in CapacityOffer, NEW g \in CapacityOffer,
           score_fits(g), f.price_per_hour <= g.price_per_hour, f.reputation >= g.reputation
    PROVE  score(f) >= score(g)
<1>1. /\ f.price_per_hour \in Nat /\ g.price_per_hour \in Nat
      /\ f.reputation \in Nat /\ g.reputation \in Nat /\ U32 \in Nat \ {0}
  BY BookAssumption, Zenon DEF CapacityOffer
<1> DEFINE p == f.price_per_hour \div 10
           q == g.price_per_hour \div 10
<1>2. p \in Nat /\ q \in Nat /\ p <= q
  BY <1>1, DivMonotone
<1>3. p % U32 = p /\ q % U32 = q
  BY <1>1, <1>2, ModSmall DEF score_fits
<1> HIDE DEF p, q
<1> QED BY <1>1, <1>2, <1>3 DEF score, saturating_sub, p, q

\* A job that find_matches finds and that runs within its order's limit is settled in
\* full (settle_job), and the ranking prefers no offer that another one beats (the sort
\* of find_matches), whatever orders and offers come and go, for every offer whose price
\* makes neither the filter's product nor the score wrap around.
THEOREM BookFair == BookSpec => [](SettledInFull /\ RankingMonotone)
<1>1. BookInit => BookShape
  BY DEF BookInit, BookShape
<1>2. ASSUME BookShape PROVE SettledInFull
  <2> SUFFICES ASSUME NEW o \in DOMAIN orders, NEW f \in find_matches(orders[o]),
                      NEW d \in Durations(orders[o]), product_fits(offers[f], orders[o])
               PROVE  settle_job(d, offers[f].price_per_hour, orders[o].max_price)
                        * SECONDS_PER_HOUR >= d * offers[f].price_per_hour
    BY DEF SettledInFull
  <2> DEFINE hours == orders[o].max_duration_hours
             rate == offers[f].price_per_hour
             budget == orders[o].max_price
  <2>1. f \in DOMAIN offers /\ affordable(offers[f], orders[o])
    BY DEF find_matches
  <2>2. /\ hours \in Nat /\ rate \in Nat /\ budget \in 0 .. U64 - 1 /\ U64 \in Nat \ {0}
        /\ d \in 0 .. hours * SECONDS_PER_HOUR
    BY <1>2, <2>1, BookAssumption, Zenon DEF BookShape, JobOrder, CapacityOffer, Durations
  <2>3. rate * hours \in Nat /\ rate * hours < U64
    BY <2>2 DEF product_fits
  <2>4. rate * hours <= budget
    BY <2>1, <2>2, <2>3, ModSmall DEF affordable
  <2> HIDE DEF hours, rate, budget
  <2>5. settle_job(d, rate, budget) * SECONDS_PER_HOUR >= d * rate
    BY <2>2, <2>4, PaidInFull
  <2> QED BY <2>5 DEF hours, rate, budget
<1>3. BookShape => RankingMonotone
  BY ScoreMonotone DEF BookShape, RankingMonotone
<1> QED BY <1>1, <1>2, <1>3, BookStep, PTL DEF BookSpec

-----------------------------------------------------------------------------
(***************************************************************************)
(* The attestations: the chain passes its check, the nonce cache accepts   *)
(* nothing twice that it remembers, and a run's checkpoints fit its data   *)
(* alone.                                                                  *)
(***************************************************************************)

\* A sequence, of whatever values.
IsSeq(s) == s \in Seq(Range(s))

\* Every sequence is one.
LEMMA SeqIsSeq ==
    ASSUME NEW S, NEW s \in Seq(S)
    PROVE  IsSeq(s)
<1>1. s \in [1 .. Len(s) -> S] /\ Len(s) \in Nat
  OBVIOUS
<1>2. s \in [1 .. Len(s) -> Range(s)]
  BY <1>1 DEF Range
<1> QED BY <1>1, <1>2, SeqDef DEF IsSeq

\* An appended sequence.
LEMMA Appended ==
    ASSUME NEW s, IsSeq(s), NEW x
    PROVE  /\ Len(s) \in Nat /\ IsSeq(Append(s, x)) /\ Len(Append(s, x)) = Len(s) + 1
           /\ \A i \in 1 .. Len(s) : Append(s, x)[i] = s[i]
           /\ Append(s, x)[Len(s) + 1] = x
           /\ Range(Append(s, x)) = Range(s) \cup {x}
<1> DEFINE t == Append(s, x)
<1>1. s \in Seq(Range(s) \cup {x}) /\ Len(s) \in Nat /\ DOMAIN s = 1 .. Len(s)
  BY DEF IsSeq
<1>2. /\ t \in Seq(Range(s) \cup {x}) /\ Len(t) = Len(s) + 1 /\ DOMAIN t = 1 .. Len(s) + 1
      /\ \A i \in 1 .. Len(s) : t[i] = s[i]
      /\ t[Len(s) + 1] = x
  BY <1>1
<1> HIDE DEF t
<1>3. Range(t) = Range(s) \cup {x}
  BY <1>1, <1>2 DEF Range
<1>4. IsSeq(t)
  BY <1>2, <1>3 DEF IsSeq
<1> QED BY <1>1, <1>2, <1>3, <1>4 DEF t

-----------------------------------------------------------------------------
\* The chain is a sequence that passes its check.
ChainInv == IsSeq(entries) /\ ChainVerifies

\* An added entry points to the one before it.
LEMMA ChainGrows ==
    ASSUME ChainInv, NEW a, NEW passes, add_attestation_unchecked(a, passes)
    PROVE  ChainInv'
<1> DEFINE e == [attestation |-> a, previous_hash |-> latest_hash,
                 verified_at |-> clock, verification_passed |-> passes]
<1>1. entries' = Append(entries, e) /\ a.node_id = Node
  BY DEF add_attestation_unchecked
<1>2. e.attestation = a /\ e.previous_hash = latest_hash
  OBVIOUS
<1> HIDE DEF e
<1>3. /\ Len(entries) \in Nat /\ IsSeq(entries') /\ Len(entries') = Len(entries) + 1
      /\ \A i \in 1 .. Len(entries) : entries'[i] = entries[i]
      /\ entries'[Len(entries) + 1] = e
  BY <1>1, Appended DEF ChainInv
<1>4. \A i \in 1 .. Len(entries) :
         /\ entries[i].attestation.node_id = Node
         /\ entries[i].previous_hash = IF i = 1 THEN {} ELSE {compute_hash(entries[i - 1])}
  BY Zenon DEF ChainInv, ChainVerifies, verify_integrity
<1>5. latest_hash = IF Len(entries) = 0 THEN {} ELSE {compute_hash(entries[Len(entries)])}
  <2>1. entries = <<>> <=> Len(entries) = 0
    BY EmptySeq DEF ChainInv, IsSeq
  <2> QED BY <2>1 DEF latest_hash, latest
<1>6. ASSUME NEW i \in 1 .. Len(entries')
      PROVE  /\ entries'[i].attestation.node_id = Node
             /\ entries'[i].previous_hash
                  = IF i = 1 THEN {} ELSE {compute_hash(entries'[i - 1])}
  <2>1. CASE i \in 1 .. Len(entries)
    <3>1. i # 1 => i - 1 \in 1 .. Len(entries)
      BY <1>3, <2>1
    <3> QED BY <1>3, <1>4, <2>1, <3>1, Zenon
  <2>2. CASE i = Len(entries) + 1
    <3>1. i # 1 => i - 1 \in 1 .. Len(entries) /\ i - 1 = Len(entries)
      BY <1>3, <2>2
    <3>2. entries'[i] = e /\ (i = 1 <=> Len(entries) = 0)
      BY <1>3, <2>2
    <3>3. i # 1 => entries'[i - 1] = entries[Len(entries)]
      BY <1>3, <3>1
    <3> QED BY <1>1, <1>2, <1>5, <3>2, <3>3, Zenon
  <2> QED BY <1>3, <2>1, <2>2
<1> QED BY <1>3, <1>6, Zenon DEF ChainInv, ChainVerifies, verify_integrity

-----------------------------------------------------------------------------
\* The cache holds the last nonces that were accepted, all of them until it is full.
CacheInv ==
    /\ IsSeq(order) /\ IsSeq(accepted) /\ nonces = Range(order)
    /\ Len(order) <= MaxSize /\ Len(order) <= Len(accepted)
    /\ Len(order) < MaxSize => Len(order) = Len(accepted)
    /\ \A k \in 1 .. Len(order) : order[k] = accepted[Len(accepted) - Len(order) + k]
    /\ AcceptedOncePerCache

\* What is left of the cache when there is room for one nonce.
LEMMA Evicted ==
    ASSUME CacheInv
    PROVE  /\ IsSeq(evicted) /\ Len(evicted) < MaxSize /\ Len(evicted) <= Len(accepted)
           /\ Len(evicted) + 1 < MaxSize => Len(evicted) = Len(accepted)
           /\ \A k \in 1 .. Len(evicted) : evicted[k] = accepted[Len(accepted) - Len(evicted) + k]
<1>1. Len(order) \in Nat /\ Len(accepted) \in Nat /\ MaxSize \in Nat \ {0}
  BY CacheAssumption DEF CacheInv, IsSeq
<1>2. CASE Len(order) >= MaxSize
  <2>1. evicted = Tail(order) /\ Len(order) = MaxSize /\ order # <<>>
    BY <1>1, <1>2 DEF evicted, CacheInv
  <2>2. /\ Tail(order) \in Seq(Range(order)) /\ Len(Tail(order)) = Len(order) - 1
        /\ \A k \in 1 .. Len(order) - 1 : Tail(order)[k] = order[k + 1]
    BY <1>1, <2>1 DEF CacheInv, IsSeq
  <2>3. \A k \in 1 .. Len(order) - 1 :
           /\ k + 1 \in 1 .. Len(order)
           /\ Len(accepted) - Len(order) + (k + 1) = Len(accepted) - (Len(order) - 1) + k
    BY <1>1
  <2>4. \A k \in 1 .. Len(order) - 1 :
           Tail(order)[k] = accepted[Len(accepted) - (Len(order) - 1) + k]
    BY <2>2, <2>3 DEF CacheInv
  <2>5. IsSeq(Tail(order))
    BY <2>2, SeqIsSeq, Zenon
  <2>6. /\ Len(order) - 1 < MaxSize /\ Len(order) - 1 <= Len(accepted)
        /\ ~ (Len(order) - 1 + 1 < MaxSize)
    BY <1>1, <2>1 DEF CacheInv
  <2> QED BY <2>1, <2>2, <2>4, <2>5, <2>6, Zenon
<1>3. CASE Len(order) < MaxSize
  <2>1. evicted = order
    BY <1>1, <1>3 DEF evicted
  <2> QED BY <1>1, <1>3, <2>1 DEF CacheInv
<1> QED BY <1>1, <1>2, <1>3

\* A nonce that is not in the cache was accepted so long ago that the cache forgot it.
LEMMA AcceptedLongAgo ==
    ASSUME CacheInv, NEW i \in 1 .. Len(accepted), accepted[i] \notin nonces
    PROVE  Len(accepted) + 1 - i > MaxSize
<1>1. Len(order) \in Nat /\ Len(accepted) \in Nat /\ MaxSize \in Nat \ {0}
  BY CacheAssumption DEF CacheInv, IsSeq
<1>2. i <= Len(accepted) - Len(order)
  <2> SUFFICES ASSUME i > Len(accepted) - Len(order) PROVE FALSE
    BY <1>1
  <2> DEFINE k == i - (Len(accepted) - Len(order))
  <2>1. k \in 1 .. Len(order) /\ Len(accepted) - Len(order) + k = i
    BY <1>1 DEF CacheInv
  <2>2. order[k] = accepted[i]
    BY <2>1 DEF CacheInv
  <2>3. DOMAIN order = 1 .. Len(order)
    BY DEF CacheInv, IsSeq
  <2> QED BY <2>1, <2>2, <2>3, Zenon DEF CacheInv, Range
<1> QED BY <1>1, <1>2 DEF CacheInv

\* verify_challenge keeps the cache and accepts nothing twice that it remembers.
LEMMA CacheStep ==
    ASSUME CacheInv, NEW c, verify_challenge(c)
    PROVE  CacheInv'
<1> DEFINE x == c.nonce
           n == Len(accepted)
           m == Len(evicted)
<1>1. /\ order' = Append(evicted, x) /\ nonces' = Range(evicted) \cup {x}
      /\ accepted' = Append(accepted, x) /\ x \notin nonces
  BY DEF verify_challenge
<1>2. /\ IsSeq(evicted) /\ m < MaxSize /\ m <= n /\ (m + 1 < MaxSize => m = n)
      /\ \A k \in 1 .. m : evicted[k] = accepted[n - m + k]
  BY Evicted
<1> HIDE DEF x
<1>3. /\ m \in Nat /\ IsSeq(order') /\ Len(order') = m + 1 /\ Range(order') = nonces'
      /\ \A k \in 1 .. m : order'[k] = evicted[k]
      /\ order'[m + 1] = x
  BY <1>1, <1>2, Appended
<1>4. /\ n \in Nat /\ IsSeq(accepted') /\ Len(accepted') = n + 1
      /\ \A i \in 1 .. n : accepted'[i] = accepted[i]
      /\ accepted'[n + 1] = x
  BY <1>1, Appended DEF CacheInv
<1>5. MaxSize \in Nat
  BY CacheAssumption
<1> HIDE DEF m, n
<1>6. ASSUME NEW k \in 1 .. m + 1
      PROVE  order'[k] = accepted'[(n + 1) - (m + 1) + k]
  <2>1. (n + 1) - (m + 1) + k = n - m + k
    BY <1>3, <1>4
  <2>2. CASE k \in 1 .. m
    <3>1. n - m + k \in 1 .. n
      BY <1>2, <1>3, <1>4, <2>2
    <3> QED BY <1>2, <1>3, <1>4, <2>1, <2>2, <3>1
  <2>3. CASE k = m + 1
    <3>1. n - m + k = n + 1
      BY <1>3, <1>4, <2>3
    <3> QED BY <1>3, <1>4, <2>1, <2>3, <3>1
  <2> QED BY <1>3, <2>2, <2>3
<1>7. ASSUME NEW i \in 1 .. n + 1, NEW j \in 1 .. n + 1, i < j, accepted'[i] = accepted'[j]
      PROVE  j - i > MaxSize
  <2>1. i \in 1 .. n /\ accepted'[i] = accepted[i]
    BY <1>4, <1>7
  <2>2. CASE j \in 1 .. n
    BY <1>4, <1>7, <2>1, <2>2, Zenon DEF CacheInv, AcceptedOncePerCache, n
  <2>3. CASE j = n + 1
    <3>1. accepted[i] \notin nonces
      BY <1>1, <1>4, <1>7, <2>1, <2>3, Zenon
    <3> QED BY <2>1, <2>3, <3>1, AcceptedLongAgo DEF n
  <2> QED BY <1>4, <2>2, <2>3
<1>8. AcceptedOncePerCache'
  BY <1>4, <1>7 DEF AcceptedOncePerCache
<1>9. m + 1 <= MaxSize /\ m + 1 <= n + 1 /\ (m + 1 < MaxSize => m + 1 = n + 1)
  BY <1>2, <1>3, <1>4, <1>5
<1> QED BY <1>3, <1>4, <1>6, <1>8, <1>9 DEF CacheInv

-----------------------------------------------------------------------------
\* Each checkpoint's hash is that of the data recorded up to it.
RunInv == /\ recorded \in Seq(Data) /\ IsSeq(checkpoints) /\ Len(checkpoints) = Len(recorded)
          /\ \A i \in 1 .. Len(recorded) : /\ checkpoints[i].sequence = i - 1
                                           /\ checkpoints[i].hash = SubSeq(recorded, 1, i)

\* The data up to an element is the data before it and that element.
LEMMA Prefix ==
    ASSUME NEW S, NEW s \in Seq(S), NEW i \in 2 .. Len(s), NEW x
    PROVE  SubSeq(s, 1, i) = Append(SubSeq(s, 1, i - 1), x) <=> x = s[i]
<1>1. Len(s) \in Nat /\ i \in Nat /\ i - 1 \in 1 .. Len(s) /\ i \in 1 .. Len(s)
  OBVIOUS
<1>2. /\ SubSeq(s, 1, i) \in Seq(S) /\ Len(SubSeq(s, 1, i)) = i
      /\ \A k \in 1 .. i : SubSeq(s, 1, i)[k] = s[k]
      /\ SubSeq(s, 1, i - 1) \in Seq(S) /\ Len(SubSeq(s, 1, i - 1)) = i - 1
      /\ \A k \in 1 .. i - 1 : SubSeq(s, 1, i - 1)[k] = s[k]
  BY <1>1
<1> DEFINE u == SubSeq(s, 1, i)
           t == Append(SubSeq(s, 1, i - 1), x)
<1>3. /\ t \in Seq(S \cup {x}) /\ Len(t) = i /\ t[i] = x
      /\ \A k \in 1 .. i - 1 : t[k] = s[k]
  BY <1>1, <1>2
<1>4. u \in Seq(S \cup {x})
  BY <1>2
<1> HIDE DEF u, t
<1>5. ASSUME u = t PROVE x = s[i]
  BY <1>1, <1>2, <1>3, <1>5 DEF u
<1>6. ASSUME x = s[i] PROVE u = t
  <2>1. \A k \in 1 .. i : u[k] = t[k]
    BY <1>1, <1>2, <1>3, <1>6 DEF u
  <2> QED BY <1>2, <1>3, <1>4, <2>1, SeqEqual DEF u
<1> QED BY <1>5, <1>6 DEF u, t

\* The data up to the first element.
LEMMA FirstPrefix ==
    ASSUME NEW S, NEW s \in Seq(S), s # <<>>
    PROVE  SubSeq(s, 1, 1) = <<s[1]>>
<1>1. Len(s) \in Nat /\ Len(s) >= 1
  BY EmptySeq
<1>2. /\ SubSeq(s, 1, 1) \in Seq(S) /\ Len(SubSeq(s, 1, 1)) = 1 /\ SubSeq(s, 1, 1)[1] = s[1]
      /\ s[1] \in S
  BY <1>1
<1>3. <<s[1]>> \in Seq(S) /\ Len(<<s[1]>>) = 1 /\ <<s[1]>>[1] = s[1]
  BY <1>2
<1>4. \A i \in 1 .. 1 : SubSeq(s, 1, 1)[i] = <<s[1]>>[i]
  BY <1>2, <1>3
<1> QED BY <1>2, <1>3, <1>4, SeqEqual, Zenon

\* add_checkpoint extends the chain of hashes by the data.
LEMMA RunGrows ==
    ASSUME RunInv, NEW d \in Data, add_checkpoint(d)
    PROVE  RunInv'
<1> DEFINE n == Len(recorded)
           c == [sequence |-> Len(checkpoints),
                 hash |-> IF checkpoints = <<>> THEN <<d>>
                          ELSE Append(latest(checkpoints).hash, d)]
<1>1. checkpoints' = Append(checkpoints, c) /\ recorded' = Append(recorded, d)
  BY DEF add_checkpoint
<1>2. c.sequence = Len(checkpoints) /\ c.hash = (IF checkpoints = <<>> THEN <<d>>
                                                ELSE Append(latest(checkpoints).hash, d))
  OBVIOUS
<1> HIDE DEF c
<1>3. /\ n \in Nat /\ recorded' \in Seq(Data) /\ Len(recorded') = n + 1
      /\ \A i \in 1 .. n : recorded'[i] = recorded[i]
      /\ recorded'[n + 1] = d /\ recorded \in Seq(Data)
  BY <1>1 DEF RunInv
<1>4. /\ IsSeq(checkpoints') /\ Len(checkpoints') = n + 1
      /\ \A i \in 1 .. n : checkpoints'[i] = checkpoints[i]
      /\ checkpoints'[n + 1] = c
  BY <1>1, Appended DEF RunInv
<1>5. ASSUME NEW i \in 1 .. n PROVE SubSeq(recorded', 1, i) = SubSeq(recorded, 1, i)
  BY <1>3
<1>6. c.hash = SubSeq(recorded', 1, n + 1)
  <2>1. checkpoints = <<>> <=> n = 0
    BY EmptySeq DEF RunInv, IsSeq
  <2>2. CASE n = 0
    <3>1. Len(recorded') # 0 /\ n + 1 = 1 /\ recorded'[1] = d
      BY <1>3, <2>2
    <3>2. SubSeq(recorded', 1, 1) = <<d>>
      BY <1>3, <3>1, EmptySeq, FirstPrefix
    <3> QED BY <1>2, <2>1, <2>2, <3>1, <3>2
  <2>3. CASE n # 0
    <3>1. latest(checkpoints).hash = SubSeq(recorded, 1, n) /\ n \in 1 .. n
      BY <1>3, <2>3 DEF RunInv, latest
    <3>2. n + 1 \in 2 .. Len(recorded') /\ (n + 1) - 1 = n
      BY <1>3, <2>3
    <3>3. SubSeq(recorded', 1, n + 1) = Append(SubSeq(recorded', 1, (n + 1) - 1), d)
      BY <1>3, <3>2, Prefix
    <3>4. SubSeq(recorded', 1, n) = SubSeq(recorded, 1, n)
      BY <1>5, <3>1
    <3> QED BY <1>2, <2>1, <2>3, <3>1, <3>2, <3>3, <3>4, Zenon
  <2> QED BY <2>2, <2>3
<1>7. ASSUME NEW i \in 1 .. n + 1
      PROVE  checkpoints'[i].sequence = i - 1 /\ checkpoints'[i].hash = SubSeq(recorded', 1, i)
  <2>1. CASE i \in 1 .. n
    <3>1. checkpoints[i].sequence = i - 1 /\ checkpoints[i].hash = SubSeq(recorded, 1, i)
      BY <2>1 DEF RunInv
    <3> QED BY <1>4, <1>5, <2>1, <3>1
  <2>2. CASE i = n + 1
    <3>1. checkpoints'[i] = c
      BY <1>4, <2>2
    <3>2. c.sequence = i - 1
      BY <1>2, <1>3, <2>2 DEF RunInv
    <3> QED BY <1>6, <2>2, <3>1, <3>2
  <2> QED BY <1>3, <2>1, <2>2
<1> QED BY <1>3, <1>4, <1>7 DEF RunInv

\* The hashes fit the data they were made of and no other.
LEMMA RunFits == RunInv => ProofFitsRun
<1> SUFFICES ASSUME RunInv, checkpoints # <<>>,
                    NEW k \in 0 .. MaxCheckpoints, NEW ds \in [1 .. k -> Data]
             PROVE  verify_execution_with_data(checkpoints, ds) <=> ds = recorded
  BY DEF ProofFitsRun
<1> DEFINE n == Len(recorded)
<1>1. /\ n \in Nat /\ n # 0 /\ recorded \in Seq(Data) /\ Len(checkpoints) = n
      /\ \A i \in 1 .. n : /\ checkpoints[i].sequence = i - 1
                           /\ checkpoints[i].hash = SubSeq(recorded, 1, i)
  BY EmptySeq DEF RunInv, IsSeq
<1>2. verify_execution(checkpoints)
  BY <1>1 DEF verify_execution
<1>3. ds \in Seq(Data)
  BY SeqDef
<1>4. checkpoints[1].hash = <<recorded[1]>>
  <2>1. 1 \in 1 .. n /\ SubSeq(recorded, 1, 1) = <<recorded[1]>>
    BY <1>1, FirstPrefix, EmptySeq
  <2> QED BY <1>1, <2>1
<1>5. ASSUME NEW i \in 2 .. n
      PROVE  verify_chain(checkpoints[i], checkpoints[i - 1], ds[i]) <=> ds[i] = recorded[i]
  <2>1. i \in 1 .. n /\ i - 1 \in 1 .. n /\ i - 1 = (i - 1 - 1) + 1
    BY <1>1
  <2>2. /\ checkpoints[i].sequence = checkpoints[i - 1].sequence + 1
        /\ checkpoints[i].hash = SubSeq(recorded, 1, i)
        /\ checkpoints[i - 1].hash = SubSeq(recorded, 1, i - 1)
    BY <1>1, <2>1
  <2>3. SubSeq(recorded, 1, i) = Append(SubSeq(recorded, 1, i - 1), ds[i]) <=> ds[i] = recorded[i]
    BY <1>1, Prefix
  <2> QED BY <2>2, <2>3 DEF verify_chain
<1>6. verify_execution_with_data(checkpoints, ds)
        <=> Len(ds) = n /\ ds[1] = recorded[1] /\ \A i \in 2 .. n : ds[i] = recorded[i]
  <2>1. checkpoints[1].hash = <<ds[1]>> <=> ds[1] = recorded[1]
    BY <1>4
  <2> QED BY <1>1, <1>2, <1>5, <2>1 DEF verify_execution_with_data
<1>7. ASSUME Len(ds) = n, ds[1] = recorded[1], \A i \in 2 .. n : ds[i] = recorded[i]
      PROVE  ds = recorded
  <2>1. \A i \in 1 .. n : ds[i] = recorded[i]
    BY <1>1, <1>7
  <2> QED BY <1>1, <1>3, <1>7, <2>1, SeqEqual
<1> QED BY <1>6, <1>7

-----------------------------------------------------------------------------
AttestInv == ChainInv /\ CacheInv /\ RunInv

\* Every operation keeps the chain, the cache and the run.
LEMMA AttestStep == AttestInv /\ [AttestNext]_attestation_vars => AttestInv'
<1> SUFFICES ASSUME AttestInv, [AttestNext]_attestation_vars PROVE AttestInv'
  OBVIOUS
<1>1. ASSUME UNCHANGED entries PROVE ChainInv'
  BY <1>1 DEF AttestInv, ChainInv, ChainVerifies
<1>2. ASSUME UNCHANGED <<nonces, order, accepted>> PROVE CacheInv'
  BY <1>2 DEF AttestInv, CacheInv, AcceptedOncePerCache
<1>3. ASSUME UNCHANGED <<checkpoints, recorded>> PROVE RunInv'
  BY <1>3 DEF AttestInv, RunInv
<1>4. ASSUME NEW a, NEW passes, add_attestation_unchecked(a, passes) PROVE AttestInv'
  BY <1>2, <1>3, <1>4, ChainGrows DEF AttestInv, add_attestation_unchecked
<1>5. ASSUME NEW c, verify_challenge(c) PROVE AttestInv'
  BY <1>1, <1>3, <1>5, CacheStep DEF AttestInv, verify_challenge
<1>6. ASSUME NEW d \in Data, add_checkpoint(d) PROVE AttestInv'
  BY <1>1, <1>2, <1>6, RunGrows DEF AttestInv, add_checkpoint
<1>7. ASSUME UNCHANGED <<entries, nonces, order, accepted, checkpoints, recorded>> PROVE AttestInv'
  BY <1>1, <1>2, <1>3, <1>7 DEF AttestInv
<1>8. ASSUME NEW l, set_rate_limit_config(l) PROVE AttestInv'
  BY <1>7, <1>8 DEF set_rate_limit_config
<1>9. ASSUME NEW n, NEW v, new_challenge(n, v) PROVE AttestInv'
  BY <1>7, <1>9 DEF new_challenge
<1>10. CASE clear_cooldown \/ tick \/ UNCHANGED attestation_vars
  BY <1>7, <1>10 DEF clear_cooldown, tick, attestation_vars, attested_vars
<1> QED BY <1>4, <1>5, <1>6, <1>8, <1>9, <1>10, Zenon DEF AttestNext, add_attestation

\* What a provider proves about itself stands up to every check (verify_integrity,
\* verify_challenge, verify_execution_attestation_with_data), for every set of nodes and
\* nonces, every size of the nonce cache and every order of operations.
THEOREM AttestationsStand == AttestSpec => []AttestationHolds
<1>1. AttestInit => AttestInv
  <2> SUFFICES ASSUME AttestInit PROVE AttestInv
    OBVIOUS
  <2>1. <<>> \in Seq({}) /\ Len(<<>>) = 0 /\ DOMAIN <<>> = {}
    OBVIOUS
  <2>2. IsSeq(<<>>) /\ Range(<<>>) = {}
    BY <2>1, SeqIsSeq, Zenon DEF Range
  <2>3. ChainInv
    BY <2>1, <2>2 DEF AttestInit, ChainInv, ChainVerifies, verify_integrity
  <2>4. CacheInv
    BY <2>1, <2>2, CacheAssumption DEF AttestInit, CacheInv, AcceptedOncePerCache
  <2>5. RunInv
    BY <2>1, <2>2 DEF AttestInit, RunInv
  <2> QED BY <2>3, <2>4, <2>5 DEF AttestInv
<1>2. AttestInv => AttestationHolds
  BY RunFits DEF AttestInv, AttestationHolds, ChainInv, CacheInv
<1> QED BY <1>1, <1>2, AttestStep, PTL DEF AttestSpec
=============================================================================
