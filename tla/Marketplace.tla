---------------------------- MODULE Marketplace ----------------------------
(***************************************************************************)
(* The marketplace, crates/molt-market/src, in two parts that share no     *)
(* variable: the order book with the settlement of finished jobs, and the  *)
(* escrow accounts.                                                        *)
(*                                                                         *)
(* The order book, {orderbook,settlement}.rs.  Orders and offers come and  *)
(* go; every match the book reports may be run for any time up to the      *)
(* order's limit and is then settled at the offer's hourly price from an   *)
(* escrow of the order's maximum price.                                    *)
(*                                                                         *)
(* Machine integers keep a width: U64 and U32 are 2^64 and 2^32 in the     *)
(* code; an instance chooses them so that some prices reach them.           *)
(***************************************************************************)
EXTENDS EscrowStates

CONSTANTS OrderIds, OfferIds,  \* ids that will ever be drawn
          Models,              \* GPU model names
          GpuCounts,           \* GPU counts used
          Hours,               \* values of max_duration_hours
          Prices,              \* values of price_per_hour
          MaxPrices,           \* values of max_price
          Reputations,         \* values of CapacityOffer::reputation
          SECONDS_PER_HOUR,
          U64, U32

ASSUME BookAssumption == /\ {SECONDS_PER_HOUR, U64, U32} \subseteq Nat \ {0}
                         /\ Hours \subseteq Nat /\ Prices \subseteq Nat /\ Reputations \subseteq Nat
                         /\ MaxPrices \subseteq 0 .. U64 - 1

VARIABLES orders,   \* OrderBook::orders, a function on the ids in the book
          offers    \* OrderBook::offers

book_vars == <<orders, offers>>

\* min_memory_gb is compared the way min_gpus is, and is left out.
JobOrder == [min_gpus : GpuCounts, gpu_model : {{}} \cup {{m} : m \in Models},
             max_duration_hours : Hours, max_price : MaxPrices]

CapacityOffer == [count : GpuCounts, model : Models,
                  price_per_hour : Prices, reputation : Reputations]

Book(Ids, Entry) == UNION {[S -> Entry] : S \in SUBSET Ids}

BookTypeOK == /\ orders \in Book(OrderIds, JobOrder)
              /\ offers \in Book(OfferIds, CapacityOffer)

-----------------------------------------------------------------------------
satisfies(offer, order) == /\ offer.count >= order.min_gpus
                           /\ order.gpu_model \in {{}, {offer.model}}

\* The product in find_matches' filter is a plain u64 product, which wraps
\* in a release build.
affordable_one_hour_less(offer, order) ==
    (offer.price_per_hour * saturating_sub(order.max_duration_hours, 1)) % U64
        <= order.max_price

affordable(offer, order) ==
    (offer.price_per_hour * order.max_duration_hours) % U64 <= order.max_price

\* `(price_per_hour / 10) as u32` drops the high bits.
score_price_sign_flipped(offer) == offer.reputation + offer.price_per_hour \div 10

score(offer) == saturating_sub(offer.reputation, (offer.price_per_hour \div 10) % U32)

\* The ids of the offers in the Vec find_matches returns, which sorts them by
\* descending score; ties come in the HashMap's order.
find_matches(order) ==
    {id \in DOMAIN offers : satisfies(offers[id], order) /\ affordable(offers[id], order)}

calculate_payment_rounded_down(duration_seconds, rate_per_hour) ==
    (duration_seconds * rate_per_hour) \div SECONDS_PER_HOUR

calculate_payment(duration_seconds, rate_per_hour) ==
    LET numerator == duration_seconds * rate_per_hour   \* in 128 bits
        payment   == (numerator + SECONDS_PER_HOUR - 1) \div SECONDS_PER_HOUR
    IN  IF payment > U64 - 1 THEN U64 - 1 ELSE payment

\* settle_job for a job whose clock did not run backwards.
settle_job(duration_seconds, rate_per_hour, escrow_amount) ==
    LET payment == calculate_payment(duration_seconds, rate_per_hour)
    IN  IF payment < escrow_amount THEN payment ELSE escrow_amount

-----------------------------------------------------------------------------
Put(f, k, v) == [x \in DOMAIN f \cup {k} |-> IF x = k THEN v ELSE f[x]]

Without(f, k) == [x \in DOMAIN f \ {k} |-> f[x]]

insert_order(id, order) == orders' = Put(orders, id, order) /\ UNCHANGED offers
insert_offer_by_model(id, offer) == /\ offers' = Put(offers, offer.model, offer)
                                    /\ UNCHANGED orders
insert_offer(id, offer) == offers' = Put(offers, id, offer) /\ UNCHANGED orders
remove_order(id) == orders' = Without(orders, id) /\ UNCHANGED offers
remove_offer(id) == offers' = Without(offers, id) /\ UNCHANGED orders

BookInit == orders = <<>> /\ offers = <<>>

BookNext == \/ \E id \in OrderIds, o \in JobOrder : insert_order(id, o)
            \/ \E id \in OfferIds, o \in CapacityOffer : insert_offer(id, o)
            \/ \E id \in OrderIds : remove_order(id)
            \/ \E id \in OfferIds : remove_offer(id)

BookSpec == BookInit /\ [][BookNext]_book_vars

-----------------------------------------------------------------------------
Durations(order) == 0 .. order.max_duration_hours * SECONDS_PER_HOUR

\* The product of find_matches' filter fits in a u64, and the price in the score's u32.
product_fits(offer, order) == offer.price_per_hour * order.max_duration_hours < U64
score_fits(offer) == offer.price_per_hour \div 10 < U32

\* A job found through the book and run within the order's limit is settled
\* in full from an escrow of max_price: the provider is "never underpaid due
\* to rounding" (settlement.rs:13) and the cap of settle_job never bites.  Not so
\* of an offer found only because its product wrapped around: it costs more than max_price.
SettledInFull ==
    \A o \in DOMAIN orders : \A f \in find_matches(orders[o]), d \in Durations(orders[o]) :
        product_fits(offers[f], orders[o])
        => settle_job(d, offers[f].price_per_hour, orders[o].max_price) * SECONDS_PER_HOUR
               >= d * offers[f].price_per_hour

\* "lower price is better" (orderbook.rs:196): among the matches of an order,
\* an offer that is no dearer and no less reputable is not ranked below, for prices
\* that the score's u32 holds.
RankingMonotone ==
    \A a, b \in DOMAIN offers :
        /\ score_fits(offers[b])
        /\ offers[a].price_per_hour <= offers[b].price_per_hour
        /\ offers[a].reputation >= offers[b].reputation
        => score(offers[a]) >= score(offers[b])

-----------------------------------------------------------------------------
(***************************************************************************)
(* EscrowAccount, escrow.rs: one action per public method, called by the   *)
(* buyer, the provider or anyone, at any time before and after the         *)
(* timeout.                                                                *)
(***************************************************************************)
CONSTANTS Escrows,     \* escrow accounts
          Parties,     \* identities that call
          Buyer,       \* Buyer[e], Provider[e]: fixed when e is created
          Provider,
          Timeouts,    \* values of timeout_duration
          MaxTime      \* bound on the clock

ASSUME PartyAssumption == /\ Buyer \in [Escrows -> Parties]
                          /\ Provider \in [Escrows -> Parties]
                          /\ Timeouts \subseteq Nat
                          /\ MaxTime \in Nat

VARIABLES now,          \* Utc::now()
          state,        \* EscrowAccount::state
          disputed_by,  \* EscrowAccount::disputed_by, an Option as a set
          timeout,      \* timeout_duration; created_at is time 0
          initiator     \* history: who moved the account into Disputed

vars == <<now, state, disputed_by, timeout, initiator>>

TypeOK == /\ now \in 0 .. MaxTime
          /\ state \in [Escrows -> MarketState]
          /\ disputed_by \in [Escrows -> SUBSET Parties]
          /\ timeout \in [Escrows -> Timeouts]
          /\ initiator \in [Escrows -> SUBSET Parties]

live(e) == state[e] \in {"Funded", "Disputed"}

is_finalized(e) == state[e] \in {"Released", "Refunded", "Expired"}

is_expired(e) == now > timeout[e]

\* check_not_expired: an account that is still Created is never too late.
check_not_expired_unless_disputed(e) ==
    /\ state[e] # "Expired"
    /\ ~ (is_expired(e) /\ state[e] = "Funded")

check_not_expired(e) == /\ state[e] # "Expired"
                        /\ ~ (is_expired(e) /\ live(e))

\* transition_to: a refused transition returns an error and changes nothing.
transition_to(e, target) ==
    state' = IF can_transition_to(state[e], target)
             THEN [state EXCEPT ![e] = target] ELSE state

fund(e, caller) == /\ check_not_expired(e)
                   /\ caller = Buyer[e]
                   /\ transition_to(e, "Funded")
                   /\ UNCHANGED <<now, disputed_by, timeout, initiator>>

release(e, caller) == /\ check_not_expired(e)
                      /\ caller = Buyer[e]
                      /\ transition_to(e, "Released")
                      /\ UNCHANGED <<now, disputed_by, timeout, initiator>>

refund(e, caller) == /\ check_not_expired(e)
                     /\ caller = Provider[e]
                     /\ transition_to(e, "Refunded")
                     /\ UNCHANGED <<now, disputed_by, timeout, initiator>>

\* dispute: the caller is stored before the transition is attempted.
dispute(e, caller) ==
    /\ check_not_expired(e)
    /\ caller \in {Buyer[e], Provider[e]}
    /\ disputed_by' = [disputed_by EXCEPT ![e] = {caller}]
    /\ transition_to(e, "Disputed")
    /\ initiator' = IF can_transition_to(state[e], "Disputed")
                    THEN [initiator EXCEPT ![e] = {caller}] ELSE initiator
    /\ UNCHANGED <<now, timeout>>

\* expire: permissionless, so no caller.
expire(e) == /\ state[e] # "Expired"
             /\ is_expired(e)
             /\ transition_to(e, "Expired")
             /\ UNCHANGED <<now, disputed_by, timeout, initiator>>

Tick == /\ now < MaxTime
        /\ now' = now + 1
        /\ UNCHANGED <<state, disputed_by, timeout, initiator>>

Init == /\ now = 0
        /\ state = [e \in Escrows |-> "Created"]
        /\ disputed_by = [e \in Escrows |-> {}]
        /\ timeout \in [Escrows -> Timeouts]
        /\ initiator = [e \in Escrows |-> {}]

Next == \/ Tick
        \/ \E e \in Escrows : expire(e)
        \/ \E e \in Escrows, c \in Parties :
              fund(e, c) \/ release(e, c) \/ refund(e, c) \/ dispute(e, c)

Spec == Init /\ [][Next]_vars

-----------------------------------------------------------------------------
custody_in(s) == CASE s = "Created"                 -> "unfunded"
                   [] s \in {"Funded", "Disputed"}   -> "held"
                   [] s = "Released"                -> "provider"
                   [] s \in {"Refunded", "Expired"} -> "buyer"

custody == [e \in Escrows |-> custody_in(state[e])]

Promise == INSTANCE EscrowPromise

\* Whatever the parties call and in whatever order, an account's funds leave
\* it at most once, to one party: the methods of EscrowAccount implement the
\* abstract escrow.
KeepsPromise == Promise!Spec

\* "After expiration, the escrow can only be finalized via `expire()`"
\* (escrow.rs:141): past the timeout a funded or disputed account is left
\* alone until it expires, even by a release, refund or dispute.
OverdueOnlyExpires ==
    \A e \in Escrows :
        live(e) /\ is_expired(e) =>
            /\ state'[e] \in {state[e], "Expired"}
            /\ disputed_by'[e] = disputed_by[e]

\* "ensures funds cannot be locked indefinitely if neither party acts"
\* (escrow.rs:108): funds that are in escrow, disputed or not, come out, or a
\* call of expire(), which anyone may make, takes them out.  Only that time
\* passes is assumed: nobody has to call anything.  (A refused call is a step
\* that changes nothing, so the call must be able to change the state.)
FundsComeOut ==
    \A e \in Escrows : live(e) ~> is_finalized(e) \/ ENABLED <<expire(e)>>_vars

\* dispute(): "The initiator is recorded for accountability." (escrow.rs:332)
InitiatorRecorded == \A e \in Escrows : initiator[e] # {} => disputed_by[e] = initiator[e]
=============================================================================
