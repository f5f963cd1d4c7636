---------------------------- MODULE MoltAgents -----------------------------
(***************************************************************************)
(* crates/molt-agent/src, in two parts that share no variable but the      *)
(* clock: agents on the market, and the hourly budget of autonomous        *)
(* spending.                                                               *)
(***************************************************************************)
(***************************************************************************)
(* The agents that act on the MOLT market for a buyer and a provider,      *)
(* crates/molt-agent/src: the buyer's jobs and budget, the provider's      *)
(* capacity, the negotiation that selects a bid, and the policies by which *)
(* an agent decides without asking.  The crate is a library; its calls may *)
(* come in any order.  Prices per unit are counted in halves and scores    *)
(* are exact fractions in place of floating point numbers.                 *)
(***************************************************************************)
EXTENDS Integers, FiniteSets

CONSTANTS Budget, MaxActiveJobs,  \* of the buyer
          Capacity, MaxJobs,      \* of the provider
          Jobs,                   \* JobSpec: [resources, price, duration, reputation]
          Offers,                 \* ProviderOffer: [price, duration, reputation]
          Bids,                   \* Bid: [price, available_at, expires_at, reputation]
          MaxPrice, MinReputation,  \* of the negotiation
          MaxPending,             \* bound on pending_jobs
          MaxEarnings,            \* bound on the provider's earnings
          MaxTime                 \* bound on the clock, in hours

VARIABLES buyer, provider, negotiation, now,
          bought  \* history: {} or the last choice [offers, job, offer] of the buyer

agent_vars == <<buyer, provider, negotiation, now, bought>>

AutonomyMode == {"Conservative", "Moderate", "Aggressive"}

NegotiationPhase == {"CollectingBids", "Completed", "Failed", "Cancelled"}

NegotiationStrategy == {"LowestPrice", "HighestReputation", "FastestAvailability", "Balanced"}

AgentTypeOK == /\ buyer \in [pending : 0..MaxPending, active : 0..MaxPending, spent : 0..Budget]
               /\ provider.allocated \in 0..Capacity /\ provider.active \in 0..MaxJobs
               /\ provider.earnings \in 0..MaxEarnings
               /\ negotiation.phase \in NegotiationPhase /\ negotiation.bids \subseteq Bids
               /\ now \in 0..MaxTime

AgentInit == /\ buyer = [pending |-> 0, active |-> 0, spent |-> 0]
             /\ provider = [allocated |-> 0, active |-> 0, earnings |-> 0]
             /\ negotiation = [phase |-> "CollectingBids", bids |-> {}, selected |-> {},
                               strategy |-> "Balanced", at |-> 0]
             /\ now = 0 /\ bought = {}

-----------------------------------------------------------------------------
(* autonomy/mod.rs: what an agent may do by itself. *)

\* DecisionThresholds::for_mode, and ProviderPolicy::for_mode in halves.
thresholds(mode) ==
    CASE mode = "Conservative" -> [price |-> 100, reputation |-> 80, duration |-> 600, unit |-> 4]
      [] mode = "Moderate"     -> [price |-> 10000, reputation |-> 50, duration |-> 3600, unit |-> 2]
      [] mode = "Aggressive"   -> [price |-> 1000000, reputation |-> 20, duration |-> 86400, unit |-> 1]

\* PolicyBounds::for_mode and AutonomyPolicy::for_mode.
policy(mode) ==
    [approve_all |-> mode = "Conservative", negotiation |-> mode # "Conservative",
     newcomers |-> mode # "Conservative",
     spend |-> thresholds(mode).price, duration |-> thresholds(mode).duration,
     reputation |-> thresholds(mode).reputation]

\* PolicyEvaluator::evaluate: Approved, otherwise the owner is asked.
approved(p, kind, price, duration, reputation) ==
    /\ ~ p.approve_all
    /\ CASE kind = "AcceptJob" -> price <= p.spend /\ duration <= p.duration
                                  /\ reputation >= p.reputation
         [] kind = "SubmitBid" -> price <= p.spend
         [] kind = "CounterOffer" -> p.negotiation /\ price <= p.spend
         [] kind = "AcceptNewCounterparty" -> p.newcomers /\ reputation >= p.reputation

available_capacity == Capacity - provider.allocated

\* price_per_unit, compared with the minimum in halves; 0 without resources.
below_minimum(job, mode) ==
    IF job.resources = 0 THEN TRUE ELSE 2 * job.price < thresholds(mode).unit * job.resources

\* Variant: the more autonomous agent asks more reputation of the buyer.
evaluate_inverted(job, mode) ==
    CASE job.resources > available_capacity \/ provider.active >= MaxJobs -> "Reject"
      [] below_minimum(job, mode) -> "Reject"
      [] job.reputation < 100 - thresholds(mode).reputation -> "NeedApproval"
      [] OTHER -> "Accept"

\* ProviderDecisionMaker::evaluate with the provider's state.
evaluate(job, mode) ==
    CASE job.resources > available_capacity \/ provider.active >= MaxJobs -> "Reject"
      [] below_minimum(job, mode) -> IF mode = "Conservative" THEN "Reject" ELSE "CounterOffer"
      [] \/ job.reputation < thresholds(mode).reputation
         \/ job.duration > thresholds(mode).duration
         \/ job.price > thresholds(mode).price -> "NeedApproval"
      [] OTHER -> "Accept"

-----------------------------------------------------------------------------
(* buyer.rs *)

remaining_budget == Budget - buyer.spent

submit_job == /\ buyer.active < MaxActiveJobs /\ buyer.pending < MaxPending
              /\ buyer' = [buyer EXCEPT !.pending = @ + 1]
              /\ UNCHANGED <<provider, negotiation, now, bought>>

\* BuyerPolicy::for_mode: the price flexibility, in percent.
price_flexibility(mode) == CASE mode = "Conservative" -> 100
                             [] mode = "Moderate"     -> 110
                             [] mode = "Aggressive"   -> 125

ceil_div(a, b) == (a + b - 1) \div b

evaluate_offer(o, j, mode) == /\ o.price <= ceil_div(j.price * price_flexibility(mode), 100)
                              /\ o.duration <= j.duration
                              /\ o.reputation >= j.reputation

\* 1 - min(x / max, 1), times max; 0 when max is 0.
share(x, max) == IF x > max THEN 0 ELSE max - x

one_if_zero(n) == IF n = 0 THEN 1 ELSE n

\* score_offer times 10 * 100 * max_price * max_duration.
score_offer(o, j) == LET p == one_if_zero(j.price)  d == one_if_zero(j.duration)
                     IN  500 * share(o.price, j.price) * d + 200 * share(o.duration, j.duration) * p
                         + 3 * o.reputation * p * d

\* select_best_offer: of offers with the best score the last one, here any.
select_best_offer(os, j, mode) ==
    LET ok == {o \in os : evaluate_offer(o, j, mode)}
    IN  {o \in ok : \A c \in ok : score_offer(c, j) <= score_offer(o, j)}

\* The buyer takes the best of the offers for a job and activates it at the
\* offer's price.  activate_job looks at the budget, not at max_active_jobs.
activate_job(os, j, mode) ==
    /\ buyer.pending > 0 /\ buyer.active < MaxPending
    /\ \E o \in select_best_offer(os, j, mode) :
       /\ o.price <= remaining_budget
       /\ buyer' = [pending |-> buyer.pending - 1, active |-> buyer.active + 1,
                    spent |-> buyer.spent + o.price]
       /\ bought' = {[offers |-> os, job |-> j, offer |-> o]}
       /\ UNCHANGED <<provider, negotiation, now>>

saturating_dec(n) == IF n = 0 THEN 0 ELSE n - 1

complete_job == /\ buyer' = [buyer EXCEPT !.active = saturating_dec(@)]
                /\ UNCHANGED <<provider, negotiation, now, bought>>

cancel_pending == /\ buyer' = [buyer EXCEPT !.pending = saturating_dec(@)]
                  /\ UNCHANGED <<provider, negotiation, now, bought>>

(* provider.rs *)

allocate(j) == /\ j.resources <= available_capacity /\ provider.active < MaxJobs
               /\ provider' = [provider EXCEPT !.allocated = @ + j.resources, !.active = @ + 1]
               /\ UNCHANGED <<buyer, negotiation, now, bought>>

\* release trusts its caller with the amount.
release(j) == /\ provider.earnings + j.price <= MaxEarnings
              /\ provider' = [allocated |-> IF provider.allocated > j.resources
                                            THEN provider.allocated - j.resources ELSE 0,
                              active |-> saturating_dec(provider.active),
                              earnings |-> provider.earnings + j.price]
              /\ UNCHANGED <<buyer, negotiation, now, bought>>

-----------------------------------------------------------------------------
(* negotiation.rs *)

is_expired(b) == now >= b.expires_at

wait(b, t) == IF b.available_at > t THEN b.available_at - t ELSE 0

\* score_bid as a fraction n / d.
price_share(b) == IF MaxPrice = 0 THEN 0 ELSE MaxPrice - b.price

score_waiting(b, strategy, t) ==
    LET w == 1 + wait(b, t)  p == IF MaxPrice = 0 THEN 1 ELSE MaxPrice
    IN  [n |-> 800 * price_share(b) * w + 7 * b.reputation * p * w + 500 * p * w * w,
         d |-> 2000 * p * w]

score_bid(b, strategy, t) ==
    LET w == 1 + wait(b, t)  p == IF MaxPrice = 0 THEN 1 ELSE MaxPrice
    IN  CASE strategy = "LowestPrice"         -> [n |-> price_share(b), d |-> p]
          [] strategy = "HighestReputation"   -> [n |-> b.reputation, d |-> 100]
          [] strategy = "FastestAvailability" -> [n |-> 1, d |-> w]
          [] strategy = "Balanced" ->
               [n |-> 800 * price_share(b) * w + 7 * b.reputation * p * w + 500 * p,
                d |-> 2000 * p * w]

valid(b) == ~ is_expired(b) /\ b.price <= MaxPrice /\ b.reputation >= MinReputation

\* negotiate: of bids with the best score the last one in the list, here any.
negotiate(strategy) ==
    LET ok == {b \in negotiation.bids : valid(b)}
        s(b) == score_bid(b, strategy, now)
    IN  {b \in ok : \A c \in ok : s(c).n * s(b).d <= s(b).n * s(c).d}

\* add_bid does not look at the deadline.
add_bid(b) == /\ negotiation.phase = "CollectingBids"
              /\ negotiation' = [negotiation EXCEPT !.bids = @ \cup {b}]
              /\ UNCHANGED <<buyer, provider, now, bought>>

finalize(strategy) ==
    /\ negotiation.phase = "CollectingBids"
    /\ IF negotiate(strategy) = {}
       THEN negotiation' = [negotiation EXCEPT !.phase = "Failed"]
       ELSE \E b \in negotiate(strategy) :
               negotiation' = [negotiation EXCEPT !.phase = "Completed", !.selected = {b},
                                                  !.strategy = strategy, !.at = now]
    /\ UNCHANGED <<buyer, provider, now, bought>>

\* cancel applies in every phase and leaves the selection.
cancel == /\ negotiation' = [negotiation EXCEPT !.phase = "Cancelled"]
          /\ UNCHANGED <<buyer, provider, now, bought>>

tick == now < MaxTime /\ now' = now + 1 /\ UNCHANGED <<buyer, provider, negotiation, bought>>

AgentNext == \/ submit_job \/ complete_job \/ cancel_pending \/ cancel \/ tick
             \/ \E j \in Jobs : allocate(j) \/ release(j)
             \/ \E os \in SUBSET Offers, j \in Jobs, mode \in AutonomyMode : activate_job(os, j, mode)
             \/ \E b \in Bids : add_bid(b)
             \/ \E strategy \in NegotiationStrategy : finalize(strategy)

AgentSpec == AgentInit /\ [][AgentNext]_agent_vars

-----------------------------------------------------------------------------
\* The bid a balanced negotiation selects is not beaten on every count: no bid
\* that was acceptable was as cheap, as reputable and as soon available and
\* better in one of these (the weights of score_bid).
SelectionUndominated ==
    (negotiation.phase = "Completed" /\ negotiation.strategy = "Balanced") =>
        \A b \in negotiation.selected, c \in negotiation.bids :
            LET t == negotiation.at
            IN  (/\ t < c.expires_at /\ c.price <= MaxPrice /\ c.reputation >= MinReputation
                 /\ c.price <= b.price /\ c.reputation >= b.reputation
                 /\ wait(c, t) <= wait(b, t))
                => c.price = b.price /\ c.reputation = b.reputation /\ wait(c, t) = wait(b, t)

\* The offer a buyer takes is not beaten on every count by another acceptable
\* one ("Select the best offer from a list of acceptable offers.").  It may be:
\* of the prices above max_price that the flexibility admits none is better.
BestOfferTaken ==
    \A t \in bought : \A c \in t.offers :
        (/\ c.price <= t.offer.price /\ c.duration <= t.offer.duration
         /\ c.reputation >= t.offer.reputation /\ c.reputation >= t.job.reputation)
        => c = t.offer

\* It is beaten at most in price and only in the flexibility band: when both prices are at
\* or above max_price, their share of the score is 0 and a tie goes to either (score_offer).
OfferUndominated ==
    \A t \in bought : \A c \in t.offers :
        (/\ c.price <= t.offer.price /\ c.duration <= t.offer.duration
         /\ c.reputation >= t.offer.reputation)
        => \/ c = t.offer
           \/ /\ t.job.price <= c.price
              /\ c.duration = t.offer.duration /\ c.reputation = t.offer.reputation

\* What a less autonomous agent does without asking, a more autonomous one does
\* too, whatever the provider's load (AutonomyMode as a spectrum; for_mode).
MoreAutonomyApprovesMore ==
    LET order == <<"Conservative", "Moderate", "Aggressive">>
    IN  \A i \in 1..2, j \in Jobs :
          /\ evaluate(j, order[i]) = "Accept" => evaluate(j, order[i + 1]) = "Accept"
          /\ \A k \in {"AcceptJob", "SubmitBid", "CounterOffer", "AcceptNewCounterparty"} :
                approved(policy(order[i]), k, j.price, j.duration, j.reputation)
                => approved(policy(order[i + 1]), k, j.price, j.duration, j.reputation)

\* "Maximum concurrent active jobs allowed.": the buyer never has more active
\* jobs.  It may: jobs submitted while few are active are all activated.
MaxActiveHolds == buyer.active <= MaxActiveJobs

-----------------------------------------------------------------------------
(***************************************************************************)
(* The hourly budget of an agent and the file that carries it over a       *)
(* restart, SpendingTracker of crates/molt-agent/src/autonomy/mod.rs.  The *)
(* file is written beside its final place and renamed, so a crash leaves   *)
(* the old one or the new one.  Between two saves the agent may crash.     *)
(***************************************************************************)
CONSTANTS Budgets,        \* budgets an owner may set
          DefaultBudget,  \* default_budget of load_state
          Amounts,        \* amounts to spend
          Hour,           \* length of the window in clock ticks
          MaxClock         \* bound on the clock of the budget

VARIABLES tracker,  \* {} while the agent is down, else the SpendingTracker
          disk,     \* {} or the SpendingTrackerState in the file
          spends,   \* history: amount spent since the start of the agent's hour
          saved     \* history: spends at the last save

budget_vars == <<tracker, disk, now, spends, saved>>

State == [budget : Budgets \cup {DefaultBudget}, spent : Nat, start : 0..MaxTime]

BudgetTypeOK == /\ tracker \subseteq State /\ disk \subseteq State
                /\ now \in 0..MaxTime /\ spends \in Nat /\ saved \in Nat

fresh == [budget |-> DefaultBudget, spent |-> 0, start |-> now]

BudgetInit == /\ now = 0
              /\ tracker = {fresh} /\ disk = {} /\ spends = 0 /\ saved = 0

-----------------------------------------------------------------------------
expired(t) == now - t.start >= Hour

\* maybe_reset_hour.
current(t) == IF expired(t) THEN [t EXCEPT !.spent = 0, !.start = now] ELSE t

remaining_this_hour(t) == IF t.budget > t.spent THEN t.budget - t.spent ELSE 0

can_afford(t, amount) == amount <= remaining_this_hour(t)

\* record_spend; a refused amount still moves an expired window.
record_spend(amount) == \E old \in tracker :
    LET t == current(old)
    IN  /\ tracker' = {IF can_afford(t, amount) THEN [t EXCEPT !.spent = @ + amount] ELSE t}
        /\ spends' = (IF expired(old) THEN 0 ELSE spends)
                      + IF can_afford(t, amount) THEN amount ELSE 0
        /\ UNCHANGED <<disk, now, saved>>

reset_hour == \E t \in tracker : /\ tracker' = {[t EXCEPT !.spent = 0, !.start = now]}
                                 /\ spends' = 0
                                 /\ UNCHANGED <<disk, now, saved>>

set_hourly_budget(budget) == \E t \in tracker : /\ tracker' = {[t EXCEPT !.budget = budget]}
                                                /\ UNCHANGED <<disk, now, spends, saved>>

save_state == /\ tracker # {}
              /\ disk' = tracker /\ saved' = spends
              /\ UNCHANGED <<tracker, now, spends>>

\* A crash forgets what was spent since the last save.
crash == /\ tracker # {}
         /\ tracker' = {} /\ spends' = saved
         /\ UNCHANGED <<disk, now, saved>>

\* Variant: a file is read with a window that starts at the restart.
from_state_restarting(d) == [d EXCEPT !.spent = 0, !.start = now]

from_state(d) == current(d)

\* try_load_state refuses a file in which more was spent than the budget.
accepted(d) == d.spent <= d.budget

load_state == /\ tracker = {}
              /\ tracker' = IF disk # {} /\ \A d \in disk : accepted(d)
                            THEN {from_state(d) : d \in disk} ELSE {fresh}
              /\ spends' = IF \A d \in disk : expired(d) THEN 0 ELSE spends
              /\ UNCHANGED <<disk, now, saved>>

budget_tick == now < MaxClock /\ now' = now + 1 /\ UNCHANGED <<tracker, disk, spends, saved>>

BudgetNext == \/ \E a \in Amounts : record_spend(a)
              \/ \E b \in Budgets : set_hourly_budget(b)
              \/ reset_hour \/ save_state \/ crash \/ load_state \/ budget_tick

BudgetSpec == BudgetInit /\ [][BudgetNext]_budget_vars

-----------------------------------------------------------------------------
\* What an agent spent in its hour and saved still counts after a restart ("The
\* tracker supports persistence to survive agent restarts."), so that it cannot
\* spend the budget of one hour twice by restarting.  Holds for a budget that is never lowered: after
\* set_hourly_budget below what was spent, the saved file is refused as corrupt
\* and the agent starts with a fresh budget in the same hour.
BudgetSurvivesRestart == \A t \in tracker : expired(t) \/ t.spent = spends
=============================================================================
