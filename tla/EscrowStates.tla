---------------------------- MODULE EscrowStates ----------------------------
(***************************************************************************)
(* The two escrow state machines of the repository and the fee arithmetic, *)
(* as operators: the marketplace's (crates/molt-market/src/escrow.rs), the *)
(* token crate's (crates/molt-token/src/escrow.rs), and the conversion     *)
(* between their states (crates/molt-market/src/payment.rs).               *)
(***************************************************************************)
EXTENDS Naturals

MarketState == {"Created", "Funded", "Released", "Refunded", "Disputed", "Expired"}

\* EscrowState::can_transition_to of the marketplace.
can_transition_to_refund_after_release(from, to) ==
    \/ from = "Created" /\ to = "Funded"
    \/ from = "Funded" /\ to = "Disputed"
    \/ from \in {"Funded", "Disputed"} /\ to \in {"Released", "Refunded", "Expired"}
    \/ from = "Released" /\ to = "Refunded"

can_transition_to_no_expiry_in_dispute(from, to) ==
    \/ from = "Created" /\ to = "Funded"
    \/ from = "Funded" /\ to \in {"Disputed", "Expired"}
    \/ from \in {"Funded", "Disputed"} /\ to \in {"Released", "Refunded"}

can_transition_to(from, to) ==
    \/ from = "Created" /\ to = "Funded"
    \/ from = "Funded" /\ to = "Disputed"
    \/ from \in {"Funded", "Disputed"} /\ to \in {"Released", "Refunded", "Expired"}

-----------------------------------------------------------------------------
TokenState == {"Creating", "Active", "Releasing", "Released", "Refunding",
               "Refunded", "Disputed", "Expired"}

can_release(s) == s = "Active"

can_refund_unless_refunded(s) == s \in TokenState \ {"Refunded"}

can_refund(s) == s \in {"Active", "Disputed"}

\* impl From<molt_token::EscrowState> for EscrowState
to_market_refunds_seen_as_created(s) ==
    CASE s = "Creating"                            -> "Created"
      [] s \in {"Active", "Releasing", "Refunding"} -> "Funded"
      [] s = "Released"                            -> "Released"
      [] s = "Refunded"                            -> "Created"
      [] s = "Expired"                             -> "Refunded"
      [] s = "Disputed"                            -> "Disputed"

to_market(s) ==
    CASE s = "Creating"                            -> "Created"
      [] s \in {"Active", "Releasing", "Refunding"} -> "Funded"
      [] s = "Released"                            -> "Released"
      [] s \in {"Refunded", "Expired"}             -> "Refunded"
      [] s = "Disputed"                            -> "Disputed"

-----------------------------------------------------------------------------
MAX_FEE_RATE_BPS     == 10000
DEFAULT_FEE_RATE_BPS == 500

saturating_sub(a, b) == IF a >= b THEN a - b ELSE 0

\* The product is taken in 128 bits, so it never overflows.
calculate_fee_lamports(amount, fee_rate_bps) ==
    (amount * fee_rate_bps) \div MAX_FEE_RATE_BPS

provider_payout_rate_as_percent(escrow) ==
    escrow.amount - (escrow.amount * escrow.fee_rate_bps) \div 100

provider_payout(escrow) ==
    saturating_sub(escrow.amount,
                   calculate_fee_lamports(escrow.amount, escrow.fee_rate_bps))
=============================================================================
