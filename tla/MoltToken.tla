----------------------------- MODULE MoltToken ------------------------------
(***************************************************************************)
(* The token crate's Escrow by itself, crates/molt-token/src/escrow.rs, in *)
(* the hands of an embedder that calls its methods in any order.  A        *)
(* release or a refund takes two calls, with the transfer on chain between *)
(* them: a dispute may come in between, and mark_expired at any time.      *)
(***************************************************************************)
EXTENDS EscrowStates, Sequences, FiniteSetsExt, TLAPS

CONSTANTS Ids,          \* the escrows
          Rates         \* fee rates callers ask for, in basis points

VARIABLES escrow,       \* escrow[i]: the TokenEscrow, or none
          funded        \* history: the escrows that were activated

token_vars == <<escrow, funded>>

None == [state |-> "none"]

TokenEscrow == [state : TokenState, fee_rate_bps : Rates, release_signature : BOOLEAN,
                refund_signature : BOOLEAN, dispute_reason : BOOLEAN]

TokenTypeOK == escrow \in [Ids -> TokenEscrow \cup {None}] /\ funded \subseteq Ids

TokenInit == escrow = [i \in Ids |-> None] /\ funded = {}

state(i) == escrow[i].state
exists(i) == escrow[i] # None

is_terminal(s) == s \in {"Released", "Refunded", "Expired"}

\* Variant: the answer of is_terminal, turned round.
can_dispute_until_expired(s) == s \in TokenState \ {"Creating", "Expired"}

can_dispute(s) == s \in {"Active", "Releasing", "Refunding"}

-----------------------------------------------------------------------------
with_fee_rate(i, rate) ==
    /\ ~ exists(i)
    /\ escrow' = IF rate > MAX_FEE_RATE_BPS THEN escrow
                 ELSE [escrow EXCEPT ![i] = [state |-> "Creating", fee_rate_bps |-> rate,
                                             release_signature |-> FALSE, refund_signature |-> FALSE,
                                             dispute_reason |-> FALSE]]

activate(i) == /\ state(i) = "Creating"
               /\ escrow' = [escrow EXCEPT ![i].state = "Active"]
               /\ funded' = funded \cup {i}

start_release(i) == /\ can_release(state(i))
                    /\ escrow' = [escrow EXCEPT ![i].state = "Releasing"]

complete_release(i) ==
    /\ state(i) = "Releasing"
    /\ escrow' = [escrow EXCEPT ![i].state = "Released", ![i].release_signature = TRUE]

start_refund(i) == /\ can_refund(state(i))
                   /\ escrow' = [escrow EXCEPT ![i].state = "Refunding"]

complete_refund(i) ==
    /\ state(i) = "Refunding"
    /\ escrow' = [escrow EXCEPT ![i].state = "Refunded", ![i].refund_signature = TRUE]

dispute(i) == /\ can_dispute(state(i))
              /\ escrow' = [escrow EXCEPT ![i].state = "Disputed", ![i].dispute_reason = TRUE]

\* Whatever the state.
mark_expired(i) == /\ exists(i)
                   /\ escrow' = [escrow EXCEPT ![i].state = "Expired"]

TokenNext == \E i \in Ids :
                 \/ activate(i)
                 \/ /\ UNCHANGED funded
                    /\ \/ \E rate \in Rates : with_fee_rate(i, rate)
                       \/ start_release(i) \/ complete_release(i) \/ start_refund(i)
                       \/ complete_refund(i) \/ dispute(i) \/ mark_expired(i)

TokenSpec == TokenInit /\ [][TokenNext]_token_vars

-----------------------------------------------------------------------------
\* The funds are where the signatures say they went.
token_custody == [i \in Ids |->
                    CASE i \notin funded -> "unfunded"
                      [] i \in funded /\ escrow[i].release_signature -> "provider"
                      [] i \in funded /\ escrow[i].refund_signature /\ ~ escrow[i].release_signature -> "buyer"
                      [] OTHER -> "held"]

TokenPromise == INSTANCE EscrowPromise WITH Escrows <- Ids, custody <- token_custody

\* In whatever order the methods are called, at most one of a release and a refund is
\* completed, and only once: the escrow implements the abstract one.
TokenKeepsPromise == TokenPromise!Spec

\* A state that tells of a payment has its signature, and only mark_expired hides one.
StatesHaveSignatures ==
    \A i \in Ids : exists(i) =>
        /\ escrow[i].release_signature => state(i) \in {"Released", "Expired"}
        /\ escrow[i].refund_signature => state(i) \in {"Refunded", "Expired"}
        /\ ~ (escrow[i].release_signature /\ escrow[i].refund_signature)
        /\ state(i) = "Released" => escrow[i].release_signature
        /\ state(i) = "Refunded" => escrow[i].refund_signature

\* escrow.rs: "Check if the escrow is in a terminal state.": nothing leads out of one.
TerminalIsFinal == [][\A i \in Ids : exists(i) /\ is_terminal(state(i)) => escrow'[i] = escrow[i]]_token_vars

-----------------------------------------------------------------------------
(***************************************************************************)
(* The simulated MOLT token client, crates/molt-token/src/client.rs, which *)
(* the marketplace's PaymentService (crates/molt-market/src/payment.rs)    *)
(* shares between tasks through an Arc.                                    *)
(*                                                                         *)
(* transfer and create_escrow read the balance under one acquisition of    *)
(* the state's mutex and debit it under another, so each is two steps with *)
(* the other tasks' steps in between.  Every other call holds the mutex    *)
(* throughout and is one step.                                             *)
(***************************************************************************)
CONSTANTS Tasks,            \* concurrent callers of the client
          Addresses,        \* wallet addresses
          Wallet,           \* Wallet[t]: address of the wallet task t pays from
          Marketplace,      \* PaymentService::marketplace_wallet
          EscrowIds,        \* escrow ids that will ever be drawn
          Amounts,          \* amounts callers use
          MaxSupply,        \* bound on the tokens ever airdropped
          MaxTransactions   \* bound on the transfers ever made

VARIABLES balance,       \* SimulatedState::accounts; no account is balance 0
          transactions,  \* SimulatedState::transactions, in commit order
          escrows,       \* SimulatedState::escrows; NoEscrow where id is unused
          call,          \* the call each task has passed the balance check of
          airdropped     \* history: tokens airdropped to each address

ledger_vars == <<balance, transactions, escrows, call, airdropped>>

NoEscrow == [state |-> "none"]
Idle     == [op |-> "idle"]

Transaction == [from : Addresses, to : Addresses, amount : Amounts]
Escrow == [buyer : Addresses, provider : Addresses, amount : Amounts,
           fee_rate_bps : {DEFAULT_FEE_RATE_BPS}, state : TokenState]
Call == [op : {"transfer", "create_escrow"}, to : Addresses, amount : Amounts]

LedgerTypeOK == /\ balance \in [Addresses -> Nat]
                /\ transactions \in Seq(Transaction)
                /\ escrows \in [EscrowIds -> Escrow \cup {NoEscrow}]
                /\ call \in [Tasks -> Call \cup {Idle}]
                /\ airdropped \in [Addresses -> Nat]

\* Sum of f(i) over the members i of S.
Total(f(_), S) == MapThenSumSet(f, S)

Stored == {id \in EscrowIds : escrows[id] # NoEscrow}

-----------------------------------------------------------------------------
\* saturating_add; MaxSupply keeps the balances far below u64::MAX.
credit(bal, a, amount) == [bal EXCEPT ![a] = @ + amount]

debit_nothing(bal, a, amount) == bal

debit(bal, a, amount) == [bal EXCEPT ![a] = saturating_sub(@, amount)]

\* airdrop, on a test network (mainnet refuses it, and nobody has tokens).
airdrop(a, amount) ==
    /\ Total(LAMBDA x : airdropped[x], Addresses) + amount <= MaxSupply
    /\ balance' = credit(balance, a, amount)
    /\ airdropped' = credit(airdropped, a, amount)
    /\ UNCHANGED <<transactions, escrows, call>>

\* The first half of transfer and of create_escrow.
check_balance_nothing(t, op, to, amount) ==
    /\ call[t] = Idle
    /\ call' = [call EXCEPT ![t] = [op |-> op, to |-> to, amount |-> amount]]
    /\ UNCHANGED <<balance, transactions, escrows, airdropped>>

check_balance(t, op, to, amount) ==
    /\ call[t] = Idle
    /\ call' = IF balance[Wallet[t]] < amount THEN call
               ELSE [call EXCEPT ![t] = [op |-> op, to |-> to, amount |-> amount]]
    /\ UNCHANGED <<balance, transactions, escrows, airdropped>>

transfer(t) ==
    /\ call[t].op = "transfer"
    /\ Len(transactions) < MaxTransactions
    /\ LET from == Wallet[t]
           to == call[t].to
           amount == call[t].amount
       IN  /\ balance' = credit(debit(balance, from, amount), to, amount)
           /\ transactions' = Append(transactions,
                                     [from |-> from, to |-> to, amount |-> amount])
    /\ call' = [call EXCEPT ![t] = Idle]
    /\ UNCHANGED <<escrows, airdropped>>

create_escrow(t, id) ==
    /\ call[t].op = "create_escrow"
    /\ escrows[id] = NoEscrow
    /\ balance' = debit(balance, Wallet[t], call[t].amount)
    /\ escrows' = [escrows EXCEPT ![id] =
                     [buyer |-> Wallet[t], provider |-> call[t].to,
                      amount |-> call[t].amount,
                      fee_rate_bps |-> DEFAULT_FEE_RATE_BPS, state |-> "Active"]]
    /\ call' = [call EXCEPT ![t] = Idle]
    /\ UNCHANGED <<transactions, airdropped>>

\* start_release, the payout and complete_release, under one lock.
release_escrow(id) ==
    /\ can_release(escrows[id].state)
    /\ balance' = credit(balance, escrows[id].provider, provider_payout(escrows[id]))
    /\ escrows' = [escrows EXCEPT ![id].state = "Released"]
    /\ UNCHANGED <<transactions, call, airdropped>>

\* start_refund, the refund and complete_refund, under one lock.
refund_escrow(id) ==
    /\ can_refund(escrows[id].state)
    /\ balance' = credit(balance, escrows[id].buyer, escrows[id].amount)
    /\ escrows' = [escrows EXCEPT ![id].state = "Refunded"]
    /\ UNCHANGED <<transactions, call, airdropped>>

\* EscrowFinalized, EscrowNotFound.
settle_refused(id) == /\ ~ can_release(escrows[id].state)
                      /\ ~ can_refund(escrows[id].state)
                      /\ UNCHANGED ledger_vars

LedgerInit == /\ balance = [a \in Addresses |-> 0]
              /\ transactions = <<>>
              /\ escrows = [id \in EscrowIds |-> NoEscrow]
              /\ call = [t \in Tasks |-> Idle]
              /\ airdropped = [a \in Addresses |-> 0]

LedgerNext == \/ \E a \in Addresses, m \in Amounts : airdrop(a, m)
              \/ \E t \in Tasks, op \in {"transfer", "create_escrow"},
                    to \in Addresses, m \in Amounts : check_balance(t, op, to, m)
              \/ \E t \in Tasks : transfer(t)
              \/ \E t \in Tasks, id \in EscrowIds : create_escrow(t, id)
              \/ \E id \in EscrowIds :
                    release_escrow(id) \/ refund_escrow(id) \/ settle_refused(id)

LedgerSpec == LedgerInit /\ [][LedgerNext]_ledger_vars

-----------------------------------------------------------------------------
Txs == DOMAIN transactions

sent(a)     == Total(LAMBDA i : transactions[i].amount, {i \in Txs : transactions[i].from = a})
received(a) == Total(LAMBDA i : transactions[i].amount, {i \in Txs : transactions[i].to = a})
locked(a)   == Total(LAMBDA id : escrows[id].amount, {id \in Stored : escrows[id].buyer = a})
refunded(a) == Total(LAMBDA id : escrows[id].amount,
                     {id \in Stored : escrows[id].buyer = a /\ escrows[id].state = "Refunded"})
earned(a)   == Total(LAMBDA id : provider_payout(escrows[id]),
                     {id \in Stored : escrows[id].provider = a /\ escrows[id].state = "Released"})
fees        == Total(LAMBDA id : escrows[id].amount - provider_payout(escrows[id]),
                     {id \in Stored : escrows[id].state = "Released"})

\* With one task per wallet, what an account holds is what the transaction and
\* escrow tables say it holds, although the balance a debit was checked
\* against may be several other calls old (client.rs:169, client.rs:246).
BalancesMatchRecords ==
    \A a \in Addresses :
        balance[a] + sent(a) + locked(a)
            = airdropped[a] + received(a) + refunded(a) + earned(a)

\* With one task per wallet, a call that has passed its balance check can
\* still be paid for, whatever the other tasks have done since.
CheckStillHolds == \A t \in Tasks : call[t] # Idle => balance[Wallet[t]] >= call[t].amount

ledger_custody == [id \in EscrowIds |->
                     IF id \notin Stored THEN "unfunded"
                     ELSE CASE escrows[id].state = "Released" -> "provider"
                            [] escrows[id].state \in {"Refunded", "Expired"} -> "buyer"
                            [] OTHER -> "held"]

LedgerPromise == INSTANCE EscrowPromise WITH Escrows <- EscrowIds, custody <- ledger_custody

\* Whatever calls race, the funds of an escrow are paid out at most once, to
\* one party: the client implements the abstract escrow.
LedgerKeepsPromise == LedgerPromise!Spec

\* Seen through the conversion to the marketplace's states, a stored escrow
\* only makes transitions that the marketplace's own state machine allows.
MarketSeesLegalTransitions ==
    \A id \in Stored :
        LET before == to_market(escrows[id].state)
            after  == to_market(escrows'[id].state)
        IN  before # after => can_transition_to(before, after)

\* transfer and create_escrow refuse what the wallet cannot pay, as
\* test_transfer_insufficient_funds expects (client.rs:492): the debit takes
\* the whole amount out of the wallet.
DebitsAreCovered ==
    \A t \in Tasks :
        call[t] # Idle /\ call'[t] = Idle => balance[Wallet[t]] >= call[t].amount

-----------------------------------------------------------------------------
(***************************************************************************)
(* The escrow by itself.  The strengthening: an escrow in a state other    *)
(* than Creating and Expired was activated, and one that was activated is  *)
(* not Creating again.                                                     *)
(***************************************************************************)
Activated ==
    \A i \in Ids : /\ i \in funded => exists(i) /\ state(i) # "Creating"
                   /\ exists(i) /\ state(i) \notin {"Creating", "Expired"} => i \in funded
                   /\ exists(i) /\ (escrow[i].release_signature \/ escrow[i].refund_signature)
                         => i \in funded

\* The inductive invariant of the escrow.
TokenInv == TokenTypeOK /\ Activated /\ StatesHaveSignatures

\* It holds of escrows that nobody has created.
LEMMA TokenStart == TokenInit => TokenInv
BY DEF TokenInit, TokenInv, TokenTypeOK, Activated, StatesHaveSignatures, exists, None

\* An escrow that exists has its fields.
LEMMA Fields ==
    ASSUME TokenTypeOK, NEW i \in Ids
    PROVE  /\ exists(i) => escrow[i] \in TokenEscrow
           /\ state(i) # "none" => exists(i)
BY DEF TokenTypeOK, exists, state, None, TokenEscrow, TokenState

\* What the methods make of an escrow: x before and e after, f and g whether it was activated.
Created(x, e, f, g) == /\ x = None /\ e.state = "Creating" /\ g = f
                       /\ ~ e.release_signature /\ ~ e.refund_signature
SameSignatures(x, e) == /\ e.release_signature = x.release_signature
                        /\ e.refund_signature = x.refund_signature
Funded(x, e, f, g) == x.state = "Creating" /\ e.state = "Active" /\ g /\ SameSignatures(x, e)
Moved(x, e, f, g) == /\ x # None /\ g = f /\ SameSignatures(x, e)
                     /\ \/ e.state = "Expired"
                        \/ /\ e.state \in {"Releasing", "Refunding", "Disputed"}
                           /\ x.state \in {"Active", "Releasing", "Refunding", "Disputed"}
Paid(x, e, f, g) == /\ x.state = "Releasing" /\ e.state = "Released" /\ g = f
                    /\ e.release_signature /\ e.refund_signature = x.refund_signature
PaidBack(x, e, f, g) == /\ x.state = "Refunding" /\ e.state = "Refunded" /\ g = f
                        /\ e.refund_signature /\ e.release_signature = x.release_signature
Legal(x, e, f, g) == \/ Created(x, e, f, g) \/ Funded(x, e, f, g) \/ Moved(x, e, f, g)
                     \/ Paid(x, e, f, g) \/ PaidBack(x, e, f, g)

\* Whatever method is called, it changes one escrow in one of these ways or none.
LEMMA TokenStep ==
    ASSUME TokenTypeOK, TokenNext
    PROVE  \/ escrow' = escrow /\ funded' = funded
           \/ \E i \in Ids, e \in TokenEscrow :
                 /\ escrow' = [escrow EXCEPT ![i] = e]
                 /\ funded' \in {funded, funded \cup {i}}
                 /\ Legal(escrow[i], e, i \in funded, i \in funded')
<1>1. PICK i \in Ids : \/ activate(i)
                       \/ /\ funded' = funded
                          /\ \/ \E rate \in Rates : with_fee_rate(i, rate)
                             \/ start_release(i) \/ complete_release(i) \/ start_refund(i)
                             \/ complete_refund(i) \/ dispute(i) \/ mark_expired(i)
  BY DEF TokenNext
<1> USE DEF Legal
<1>2. ASSUME NEW rate \in Rates, with_fee_rate(i, rate), funded' = funded
      PROVE  \/ escrow' = escrow
             \/ \E e \in TokenEscrow : /\ escrow' = [escrow EXCEPT ![i] = e]
                                       /\ Created(escrow[i], e, i \in funded, i \in funded')
  <2> DEFINE e == [state |-> "Creating", fee_rate_bps |-> rate, release_signature |-> FALSE,
                   refund_signature |-> FALSE, dispute_reason |-> FALSE]
  <2>1. e \in TokenEscrow /\ (escrow' = escrow \/ escrow' = [escrow EXCEPT ![i] = e])
    BY <1>2 DEF with_fee_rate, TokenEscrow, TokenState
  <2>2. Created(escrow[i], e, i \in funded, i \in funded')
    BY <1>2 DEF Created, with_fee_rate, exists
  <2> HIDE DEF e
  <2> QED BY <2>1, <2>2
<1>3. ASSUME state(i) # "none" PROVE exists(i) /\ escrow[i] \in TokenEscrow /\ escrow[i] # None
  BY <1>3, Fields DEF exists
<1>4. CASE activate(i)
  <2> DEFINE e == [escrow[i] EXCEPT !.state = "Active"]
  <2>1. escrow[i] \in TokenEscrow
    BY <1>3, <1>4 DEF activate
  <2>2. e \in TokenEscrow /\ escrow' = [escrow EXCEPT ![i] = e]
    BY <1>4, <2>1 DEF activate, TokenEscrow, TokenState
  <2>3. Funded(escrow[i], e, i \in funded, i \in funded')
    BY <1>4, <2>1 DEF activate, Funded, SameSignatures, state, TokenEscrow
  <2> HIDE DEF e
  <2> QED BY <1>4, <2>2, <2>3, Zenon DEF activate
<1>5. CASE start_release(i) /\ funded' = funded
  <2> DEFINE e == [escrow[i] EXCEPT !.state = "Releasing"]
  <2>1. escrow[i] \in TokenEscrow /\ escrow[i] # None
    BY <1>3, <1>5 DEF start_release, can_release
  <2>2. e \in TokenEscrow /\ escrow' = [escrow EXCEPT ![i] = e]
    BY <1>5, <2>1 DEF start_release, TokenEscrow, TokenState
  <2>3. Moved(escrow[i], e, i \in funded, i \in funded')
    BY <1>5, <2>1 DEF start_release, can_release, Moved, SameSignatures, state, TokenEscrow
  <2> HIDE DEF e
  <2> QED BY <1>5, <2>2, <2>3, Zenon
<1>6. CASE start_refund(i) /\ funded' = funded
  <2> DEFINE e == [escrow[i] EXCEPT !.state = "Refunding"]
  <2>1. escrow[i] \in TokenEscrow /\ escrow[i] # None
    BY <1>3, <1>6, Zenon DEF start_refund, can_refund
  <2>2. e \in TokenEscrow /\ escrow' = [escrow EXCEPT ![i] = e]
    BY <1>6, <2>1 DEF start_refund, TokenEscrow, TokenState
  <2>3. Moved(escrow[i], e, i \in funded, i \in funded')
    BY <1>6, <2>1 DEF start_refund, can_refund, Moved, SameSignatures, state, TokenEscrow
  <2> HIDE DEF e
  <2> QED BY <1>6, <2>2, <2>3, Zenon
<1>7. CASE dispute(i) /\ funded' = funded
  <2> DEFINE e == [escrow[i] EXCEPT !.state = "Disputed", !.dispute_reason = TRUE]
  <2>1. escrow[i] \in TokenEscrow /\ escrow[i] # None
    BY <1>3, <1>7, Zenon DEF dispute, can_dispute
  <2>2. e \in TokenEscrow /\ escrow' = [escrow EXCEPT ![i] = e]
    BY <1>7, <2>1, Zenon DEF dispute, TokenEscrow, TokenState
  <2>3. Moved(escrow[i], e, i \in funded, i \in funded')
    BY <1>7, <2>1 DEF dispute, can_dispute, Moved, SameSignatures, state, TokenEscrow
  <2> HIDE DEF e
  <2> QED BY <1>7, <2>2, <2>3, Zenon
<1>8. CASE mark_expired(i) /\ funded' = funded
  <2> DEFINE e == [escrow[i] EXCEPT !.state = "Expired"]
  <2>1. escrow[i] \in TokenEscrow /\ escrow[i] # None
    BY <1>8, Fields DEF mark_expired, exists
  <2>2. e \in TokenEscrow /\ escrow' = [escrow EXCEPT ![i] = e]
    BY <1>8, <2>1 DEF mark_expired, TokenEscrow, TokenState
  <2>3. Moved(escrow[i], e, i \in funded, i \in funded')
    BY <1>8, <2>1 DEF Moved, SameSignatures, TokenEscrow
  <2> HIDE DEF e
  <2> QED BY <1>8, <2>2, <2>3, Zenon
<1>9. CASE complete_release(i) /\ funded' = funded
  <2> DEFINE e == [escrow[i] EXCEPT !.state = "Released", !.release_signature = TRUE]
  <2>1. escrow[i] \in TokenEscrow
    BY <1>3, <1>9 DEF complete_release
  <2>2. e \in TokenEscrow /\ escrow' = [escrow EXCEPT ![i] = e]
    BY <1>9, <2>1, Zenon DEF complete_release, TokenEscrow, TokenState
  <2>3. Paid(escrow[i], e, i \in funded, i \in funded')
    BY <1>9, <2>1 DEF complete_release, Paid, state, TokenEscrow
  <2> HIDE DEF e
  <2> QED BY <1>9, <2>2, <2>3, Zenon
<1>10. CASE complete_refund(i) /\ funded' = funded
  <2> DEFINE e == [escrow[i] EXCEPT !.state = "Refunded", !.refund_signature = TRUE]
  <2>1. escrow[i] \in TokenEscrow
    BY <1>3, <1>10 DEF complete_refund
  <2>2. e \in TokenEscrow /\ escrow' = [escrow EXCEPT ![i] = e]
    BY <1>10, <2>1, Zenon DEF complete_refund, TokenEscrow, TokenState
  <2>3. PaidBack(escrow[i], e, i \in funded, i \in funded')
    BY <1>10, <2>1 DEF complete_refund, PaidBack, state, TokenEscrow
  <2> HIDE DEF e
  <2> QED BY <1>10, <2>2, <2>3, Zenon
<1> QED BY <1>1, <1>2, <1>4, <1>5, <1>6, <1>7, <1>8, <1>9, <1>10

\* What changes one escrow leaves the others and their funding as they were.
LEMMA OneEscrow ==
    ASSUME TokenInv, NEW i \in Ids, NEW e \in TokenEscrow, escrow' = [escrow EXCEPT ![i] = e],
           funded' \in {funded, funded \cup {i}}
    PROVE  /\ TokenTypeOK' /\ escrow'[i] = e /\ e # None
           /\ \A j \in Ids \ {i} : escrow'[j] = escrow[j] /\ (j \in funded' <=> j \in funded)
BY DEF TokenInv, TokenTypeOK, TokenEscrow, None, TokenState

\* Every method of the escrow preserves the invariant.
LEMMA TokenNextInv == TokenInv /\ [TokenNext]_token_vars => TokenInv'
<1> SUFFICES ASSUME TokenInv, [TokenNext]_token_vars PROVE TokenInv'
  OBVIOUS
<1>1. CASE escrow' = escrow /\ funded' = funded
  BY <1>1 DEF TokenInv, TokenTypeOK, Activated, StatesHaveSignatures, exists, state
<1>2. ASSUME NEW i \in Ids, NEW e \in TokenEscrow, escrow' = [escrow EXCEPT ![i] = e],
             funded' \in {funded, funded \cup {i}},
             Legal(escrow[i], e, i \in funded, i \in funded')
      PROVE  TokenInv'
  <2>1. /\ TokenTypeOK' /\ escrow'[i] = e /\ e # None
        /\ \A j \in Ids \ {i} : escrow'[j] = escrow[j] /\ (j \in funded' <=> j \in funded)
    BY <1>2, OneEscrow, Zenon
  <2>2. exists(i) => escrow[i] \in TokenEscrow
    BY Fields, Zenon DEF TokenInv
  <2>3. escrow[i].state # "none" => exists(i)
    BY Fields, Zenon DEF TokenInv, state
  <2>4. Activated'
    BY <1>2, <2>1, <2>2, <2>3 DEF Legal, Created, Funded, Moved, Paid, PaidBack, SameSignatures,
       TokenInv, Activated, StatesHaveSignatures, exists, state
  <2>5. StatesHaveSignatures'
    BY <1>2, <2>1, <2>2, <2>3 DEF Legal, Created, Funded, Moved, Paid, PaidBack, SameSignatures,
       TokenInv, Activated, StatesHaveSignatures, exists, state
  <2> QED BY <2>1, <2>4, <2>5 DEF TokenInv
<1> QED BY <1>1, <1>2, TokenStep DEF TokenInv, token_vars

\* Escrow (molt-token/src/escrow.rs): in whatever order the methods are called, the state tells
\* which payment was signed, and no escrow is both released and refunded.
THEOREM SignaturesTold == TokenSpec => []StatesHaveSignatures
<1>1. TokenInv => StatesHaveSignatures
  BY DEF TokenInv
<1> QED BY <1>1, TokenStart, TokenNextInv, PTL DEF TokenSpec

\* Escrow implements the abstract escrow: complete_release and complete_refund pay out the funds
\* of an activated escrow at most once between them, to one party, whatever dispute and
\* mark_expired do in between.
THEOREM TokenPaysOnce == TokenSpec => TokenKeepsPromise
<1>1. TokenInit => TokenPromise!Init
  BY DEF TokenInit, TokenPromise!Init, token_custody
<1>2. TokenInv /\ [TokenNext]_token_vars => [TokenPromise!Next]_token_custody
  <2> SUFFICES ASSUME TokenInv, [TokenNext]_token_vars
               PROVE  TokenPromise!Next \/ token_custody' = token_custody
    OBVIOUS
  <2>1. CASE escrow' = escrow /\ funded' = funded
    BY <2>1 DEF token_custody
  <2>2. ASSUME NEW i \in Ids, NEW e \in TokenEscrow, escrow' = [escrow EXCEPT ![i] = e],
               funded' \in {funded, funded \cup {i}},
               Legal(escrow[i], e, i \in funded, i \in funded')
        PROVE  TokenPromise!Next \/ token_custody' = token_custody
    <3>1. /\ escrow'[i] = e
          /\ \A j \in Ids \ {i} : escrow'[j] = escrow[j] /\ (j \in funded' <=> j \in funded)
      BY <2>2, OneEscrow, Zenon
    <3>2. \A j \in Ids \ {i} : token_custody'[j] = token_custody[j]
      BY <3>1 DEF token_custody
    <3>3. /\ token_custody = [j \in Ids |-> token_custody[j]]
          /\ token_custody' = [j \in Ids |-> token_custody'[j]]
      BY DEF token_custody
    <3>4. /\ i \notin funded => token_custody[i] = "unfunded"
          /\ i \in funded /\ escrow[i].release_signature => token_custody[i] = "provider"
          /\ i \in funded /\ ~ escrow[i].release_signature =>
                token_custody[i] = IF escrow[i].refund_signature THEN "buyer" ELSE "held"
      BY DEF token_custody
    <3>5. /\ i \notin funded' => token_custody'[i] = "unfunded"
          /\ i \in funded' /\ e.release_signature => token_custody'[i] = "provider"
          /\ i \in funded' /\ ~ e.release_signature =>
                token_custody'[i] = IF e.refund_signature THEN "buyer" ELSE "held"
      BY <3>1 DEF token_custody
    <3>6. /\ exists(i) => escrow[i] \in TokenEscrow
          /\ escrow[i].state # "none" => exists(i)
          /\ escrow[i] = None => i \notin funded
          /\ escrow[i].state = "Creating" => i \notin funded
          /\ escrow[i].state \in {"Releasing", "Refunding"} => i \in funded
          /\ exists(i) /\ escrow[i].state \in {"Creating", "Releasing", "Refunding"} =>
                ~ escrow[i].release_signature /\ ~ escrow[i].refund_signature
      BY Fields DEF TokenInv, Activated, StatesHaveSignatures, exists, state
    <3> HIDE DEF token_custody
    <3>7. \A c : token_custody'[i] = c => token_custody' = [token_custody EXCEPT ![i] = c]
      BY <3>2, <3>3
    <3>8. CASE \/ Created(escrow[i], e, i \in funded, i \in funded')
               \/ Moved(escrow[i], e, i \in funded, i \in funded')
      <4>1. token_custody'[i] = token_custody[i]
        BY <3>4, <3>5, <3>6, <3>8 DEF Created, Moved, SameSignatures
      <4> QED BY <3>2, <3>3, <4>1
    <3>9. CASE Funded(escrow[i], e, i \in funded, i \in funded')
      <4>1. token_custody[i] = "unfunded" /\ token_custody'[i] = "held"
        BY <3>4, <3>5, <3>6, <3>9 DEF Funded, SameSignatures
      <4> QED BY <3>7, <4>1 DEF TokenPromise!Next, TokenPromise!Fund
    <3>10. CASE Paid(escrow[i], e, i \in funded, i \in funded')
      <4>1. token_custody[i] = "held" /\ token_custody'[i] = "provider"
        BY <3>4, <3>5, <3>6, <3>10 DEF Paid
      <4> QED BY <3>7, <4>1 DEF TokenPromise!Next, TokenPromise!PayProvider
    <3>11. CASE PaidBack(escrow[i], e, i \in funded, i \in funded')
      <4>1. token_custody[i] = "held" /\ token_custody'[i] = "buyer"
        BY <3>4, <3>5, <3>6, <3>11 DEF PaidBack
      <4> QED BY <3>7, <4>1 DEF TokenPromise!Next, TokenPromise!PayBuyer
    <3> QED BY <2>2, <3>8, <3>9, <3>10, <3>11 DEF Legal
  <2> QED BY <2>1, <2>2, TokenStep DEF TokenInv, token_vars
<1> QED BY <1>1, <1>2, TokenStart, TokenNextInv, PTL DEF TokenSpec, TokenKeepsPromise,
        TokenPromise!Spec

-----------------------------------------------------------------------------
(***************************************************************************)
(* The client's ledger, for any number of tasks, addresses and escrows.    *)
(***************************************************************************)
\* Every task pays from some wallet, and amounts are whole lamports (u64).
LedgerConstants == Wallet \in [Tasks -> Addresses] /\ Amounts \subseteq Nat

\* No wallet is given to two tasks, as in every test of the repository.
OneTaskPerWallet == \A s, t \in Tasks : Wallet[s] = Wallet[t] => s = t

\* What a release leaves after the fee is a number.
LEMMA Payout ==
    ASSUME NEW m \in Nat
    PROVE  saturating_sub(m, calculate_fee_lamports(m, DEFAULT_FEE_RATE_BPS)) \in Nat
<1>1. calculate_fee_lamports(m, DEFAULT_FEE_RATE_BPS) \in Nat
  BY DEF calculate_fee_lamports, DEFAULT_FEE_RATE_BPS, MAX_FEE_RATE_BPS
<1> QED BY <1>1 DEF saturating_sub

\* A credit takes from no account.
LEMMA Credited ==
    ASSUME NEW bal \in [Addresses -> Nat], NEW a \in Addresses, NEW m \in Nat
    PROVE  /\ credit(bal, a, m) \in [Addresses -> Nat]
           /\ \A b \in Addresses : credit(bal, a, m)[b] >= bal[b]
BY DEF credit

\* A debit takes from the account it names only.
LEMMA Debited ==
    ASSUME NEW bal \in [Addresses -> Nat], NEW a \in Addresses, NEW m \in Nat
    PROVE  /\ debit(bal, a, m) \in [Addresses -> Nat]
           /\ \A b \in Addresses \ {a} : debit(bal, a, m)[b] = bal[b]
BY DEF debit, saturating_sub

\* The types hold of a client that was just made.
LEMMA LedgerStart == LedgerInit => LedgerTypeOK
BY DEF LedgerInit, LedgerTypeOK

\* A call that has passed its check, and an escrow that is stored.
LEMMA LedgerFields ==
    ASSUME LedgerTypeOK, LedgerConstants
    PROVE  /\ \A t \in Tasks : /\ Wallet[t] \in Addresses
                               /\ call[t] # Idle => call[t] \in Call /\ call[t].amount \in Nat
                               /\ call[t].op # "idle" => call[t] # Idle
           /\ \A id \in EscrowIds :
                 escrows[id].state # "none" => escrows[id] \in Escrow /\ escrows[id] # NoEscrow
<1>1. \A t \in Tasks : call[t] # Idle => call[t] \in Call
  BY DEF LedgerTypeOK
<1>2. \A c \in Call : c.amount \in Nat
  BY Zenon DEF Call, LedgerConstants
<1>3. \A id \in EscrowIds : escrows[id] = NoEscrow \/ escrows[id] \in Escrow
  BY DEF LedgerTypeOK
<1>4. Idle.op = "idle" /\ NoEscrow.state = "none"
  BY DEF Idle, NoEscrow
<1> QED BY <1>1, <1>2, <1>3, <1>4 DEF LedgerConstants

\* What create_escrow, release_escrow and refund_escrow make of one escrow.
EscrowStep(id, e) ==
    /\ escrows' = [escrows EXCEPT ![id] = e] /\ e \in Escrow
    /\ \/ escrows[id] = NoEscrow /\ e.state = "Active"
       \/ escrows[id] \in Escrow /\ escrows[id].state = "Active" /\ e.state = "Released"
       \/ /\ escrows[id] \in Escrow /\ escrows[id].state \in {"Active", "Disputed"}
          /\ e.state = "Refunded"

\* Every step of the ledger changes at most one escrow, in one of these ways.
LEMMA LedgerEscrows ==
    ASSUME LedgerTypeOK, LedgerConstants, LedgerNext
    PROVE  escrows' = escrows \/ \E id \in EscrowIds : \E e : EscrowStep(id, e)
<1>1. ASSUME NEW t \in Tasks, NEW id \in EscrowIds, create_escrow(t, id)
      PROVE  \E e : EscrowStep(id, e)
  <2> DEFINE e == [buyer |-> Wallet[t], provider |-> call[t].to, amount |-> call[t].amount,
                   fee_rate_bps |-> DEFAULT_FEE_RATE_BPS, state |-> "Active"]
  <2>1. call[t] \in Call /\ Wallet[t] \in Addresses
    BY <1>1, LedgerFields DEF create_escrow
  <2>2. e \in Escrow /\ e.state = "Active"
    BY <2>1 DEF Call, Escrow, TokenState
  <2>3. escrows' = [escrows EXCEPT ![id] = e] /\ escrows[id] = NoEscrow
    BY <1>1 DEF create_escrow
  <2> HIDE DEF e
  <2> QED BY <2>2, <2>3, Zenon DEF EscrowStep
<1>2. ASSUME NEW id \in EscrowIds, release_escrow(id)
      PROVE  \E e : EscrowStep(id, e)
  <2> DEFINE e == [escrows[id] EXCEPT !.state = "Released"]
  <2>1. escrows[id] \in Escrow /\ escrows[id].state = "Active"
    BY <1>2, LedgerFields DEF release_escrow, can_release
  <2>2. e \in Escrow /\ e.state = "Released"
    BY <2>1 DEF Escrow, TokenState
  <2>3. escrows' = [escrows EXCEPT ![id] = e]
    BY <1>2 DEF release_escrow
  <2> HIDE DEF e
  <2> QED BY <2>1, <2>2, <2>3, Zenon DEF EscrowStep
<1>3. ASSUME NEW id \in EscrowIds, refund_escrow(id)
      PROVE  \E e : EscrowStep(id, e)
  <2> DEFINE e == [escrows[id] EXCEPT !.state = "Refunded"]
  <2>1. escrows[id] \in Escrow /\ escrows[id].state \in {"Active", "Disputed"}
    BY <1>3, LedgerFields DEF refund_escrow, can_refund
  <2>2. e \in Escrow /\ e.state = "Refunded"
    BY <2>1 DEF Escrow, TokenState
  <2>3. escrows' = [escrows EXCEPT ![id] = e]
    BY <1>3 DEF refund_escrow
  <2> HIDE DEF e
  <2> QED BY <2>1, <2>2, <2>3, Zenon DEF EscrowStep
<1> QED BY <1>1, <1>2, <1>3, Zenon DEF LedgerNext, airdrop, check_balance, transfer, settle_refused,
        ledger_vars

\* Every call of the client preserves the types: no balance goes below zero.
LEMMA LedgerTypes ==
    ASSUME LedgerTypeOK, LedgerConstants, [LedgerNext]_ledger_vars
    PROVE  LedgerTypeOK'
<1>1. CASE UNCHANGED ledger_vars
  BY <1>1 DEF LedgerTypeOK, ledger_vars
<1>2. CASE LedgerNext
  <2>1. escrows' \in [EscrowIds -> Escrow \cup {NoEscrow}]
    BY <1>2, LedgerEscrows DEF LedgerTypeOK, EscrowStep
  <2>2. ASSUME NEW a \in Addresses, NEW m \in Amounts, airdrop(a, m) PROVE LedgerTypeOK'
    <3>1. m \in Nat
      BY DEF LedgerConstants
    <3>2. balance' \in [Addresses -> Nat] /\ airdropped' \in [Addresses -> Nat]
      BY <2>2, <3>1, Credited, Zenon DEF airdrop, LedgerTypeOK
    <3> QED BY <2>1, <2>2, <3>2 DEF airdrop, LedgerTypeOK
  <2>3. ASSUME NEW t \in Tasks, NEW op \in {"transfer", "create_escrow"}, NEW to \in Addresses,
               NEW m \in Amounts, check_balance(t, op, to, m)
        PROVE  LedgerTypeOK'
    <3>1. [op |-> op, to |-> to, amount |-> m] \in Call
      BY DEF Call
    <3>2. call' \in [Tasks -> Call \cup {Idle}]
      BY <2>3, <3>1 DEF check_balance, LedgerTypeOK
    <3> QED BY <2>1, <2>3, <3>2 DEF check_balance, LedgerTypeOK
  <2>4. ASSUME NEW t \in Tasks, transfer(t) PROVE LedgerTypeOK'
    <3>1. call[t] \in Call /\ call[t].amount \in Nat /\ Wallet[t] \in Addresses
      BY <2>4, LedgerFields DEF transfer
    <3>2. call[t].to \in Addresses /\ call[t].amount \in Amounts
      BY <3>1 DEF Call
    <3>3. debit(balance, Wallet[t], call[t].amount) \in [Addresses -> Nat]
      BY <3>1, Debited, Zenon DEF LedgerTypeOK
    <3>4. balance' \in [Addresses -> Nat]
      BY <2>4, <3>1, <3>2, <3>3, Credited, Zenon DEF transfer
    <3>5. transactions' \in Seq(Transaction)
      BY <2>4, <3>1, <3>2 DEF transfer, LedgerTypeOK, Transaction
    <3>6. call' \in [Tasks -> Call \cup {Idle}]
      BY <2>4 DEF transfer, LedgerTypeOK
    <3> QED BY <2>1, <2>4, <3>4, <3>5, <3>6 DEF transfer, LedgerTypeOK
  <2>5. ASSUME NEW t \in Tasks, NEW id \in EscrowIds, create_escrow(t, id) PROVE LedgerTypeOK'
    <3>1. call[t].amount \in Nat /\ Wallet[t] \in Addresses
      BY <2>5, LedgerFields DEF create_escrow
    <3>2. balance' \in [Addresses -> Nat]
      BY <2>5, <3>1, Debited, Zenon DEF create_escrow, LedgerTypeOK
    <3>3. call' \in [Tasks -> Call \cup {Idle}]
      BY <2>5 DEF create_escrow, LedgerTypeOK
    <3> QED BY <2>1, <2>5, <3>2, <3>3 DEF create_escrow, LedgerTypeOK
  <2>6. ASSUME NEW id \in EscrowIds, release_escrow(id) \/ refund_escrow(id) PROVE LedgerTypeOK'
    <3>1. escrows[id] \in Escrow
      <4>1. escrows[id].state # "none"
        BY <2>6 DEF release_escrow, refund_escrow, can_release, can_refund
      <4> QED BY <4>1, LedgerFields
    <3>2. /\ escrows[id].amount \in Nat /\ escrows[id].fee_rate_bps = DEFAULT_FEE_RATE_BPS
          /\ escrows[id].buyer \in Addresses /\ escrows[id].provider \in Addresses
      BY <3>1, Zenon DEF Escrow, LedgerConstants
    <3>3. provider_payout(escrows[id]) \in Nat
      BY <3>2, Payout DEF provider_payout
    <3>4. balance' \in [Addresses -> Nat]
      <4>1. CASE release_escrow(id)
        BY <4>1, <3>2, <3>3, Credited, Zenon DEF release_escrow, LedgerTypeOK
      <4>2. CASE refund_escrow(id)
        BY <4>2, <3>2, Credited, Zenon DEF refund_escrow, LedgerTypeOK
      <4> QED BY <2>6, <4>1, <4>2
    <3> QED BY <2>1, <2>6, <3>4 DEF release_escrow, refund_escrow, LedgerTypeOK
  <2>7. ASSUME NEW id \in EscrowIds, settle_refused(id) PROVE LedgerTypeOK'
    BY <2>7 DEF settle_refused, ledger_vars, LedgerTypeOK
  <2> QED BY <1>2, <2>2, <2>3, <2>4, <2>5, <2>6, <2>7 DEF LedgerNext
<1> QED BY <1>1, <1>2

\* The other escrows stay as they are.
LEMMA OneStored ==
    ASSUME LedgerTypeOK, NEW id \in EscrowIds, NEW e, EscrowStep(id, e)
    PROVE  /\ escrows'[id] = e /\ e # NoEscrow /\ id \in Stored'
           /\ \A j \in EscrowIds \ {id} :
                 escrows'[j] = escrows[j] /\ (j \in Stored' <=> j \in Stored)
<1>1. escrows'[id] = e /\ \A j \in EscrowIds \ {id} : escrows'[j] = escrows[j]
  BY DEF EscrowStep, LedgerTypeOK
<1>2. e # NoEscrow
  BY DEF EscrowStep, Escrow, NoEscrow, TokenState
<1> QED BY <1>1, <1>2 DEF Stored

\* However the tasks' calls race (SimulatedState behind its mutex, client.rs), release_escrow
\* and refund_escrow pay out an escrow at most once, to one party: the client implements the
\* abstract escrow.
THEOREM LedgerPaysOnce ==
    ASSUME LedgerConstants PROVE LedgerSpec => LedgerKeepsPromise
<1>1. LedgerInit => LedgerPromise!Init
  BY DEF LedgerInit, LedgerPromise!Init, ledger_custody, Stored
<1>2. LedgerTypeOK /\ [LedgerNext]_ledger_vars => [LedgerPromise!Next]_ledger_custody
  <2> SUFFICES ASSUME LedgerTypeOK, [LedgerNext]_ledger_vars
               PROVE  LedgerPromise!Next \/ ledger_custody' = ledger_custody
    OBVIOUS
  <2>1. CASE escrows' = escrows
    BY <2>1 DEF ledger_custody, Stored
  <2>2. ASSUME NEW id \in EscrowIds, NEW e, EscrowStep(id, e)
        PROVE  LedgerPromise!Next \/ ledger_custody' = ledger_custody
    <3>1. /\ escrows'[id] = e /\ id \in Stored'
          /\ \A j \in EscrowIds \ {id} :
                escrows'[j] = escrows[j] /\ (j \in Stored' <=> j \in Stored)
      BY <2>2, OneStored
    <3>2. \A j \in EscrowIds \ {id} : ledger_custody'[j] = ledger_custody[j]
      BY <3>1 DEF ledger_custody
    <3>3. /\ ledger_custody = [j \in EscrowIds |-> ledger_custody[j]]
          /\ ledger_custody' = [j \in EscrowIds |-> ledger_custody'[j]]
      BY DEF ledger_custody
    <3>4. /\ escrows[id] = NoEscrow => ledger_custody[id] = "unfunded"
          /\ escrows[id] # NoEscrow /\ escrows[id].state \in {"Active", "Disputed"} =>
                ledger_custody[id] = "held"
      BY DEF ledger_custody, Stored
    <3>5. /\ e.state = "Active" => ledger_custody'[id] = "held"
          /\ e.state = "Released" => ledger_custody'[id] = "provider"
          /\ e.state = "Refunded" => ledger_custody'[id] = "buyer"
      BY <3>1 DEF ledger_custody
    <3>6. NoEscrow \notin Escrow
      BY DEF NoEscrow, Escrow, TokenState
    <3> HIDE DEF ledger_custody
    <3>7. \A c : ledger_custody'[id] = c => ledger_custody' = [ledger_custody EXCEPT ![id] = c]
      BY <3>2, <3>3
    <3>8. CASE escrows[id] = NoEscrow /\ e.state = "Active"
      BY <3>4, <3>5, <3>7, <3>8 DEF LedgerPromise!Next, LedgerPromise!Fund
    <3>9. CASE escrows[id] \in Escrow /\ escrows[id].state = "Active" /\ e.state = "Released"
      BY <3>4, <3>5, <3>6, <3>7, <3>9 DEF LedgerPromise!Next, LedgerPromise!PayProvider
    <3>10. CASE /\ escrows[id] \in Escrow /\ escrows[id].state \in {"Active", "Disputed"}
                /\ e.state = "Refunded"
      BY <3>4, <3>5, <3>6, <3>7, <3>10 DEF LedgerPromise!Next, LedgerPromise!PayBuyer
    <3> QED BY <2>2, <3>8, <3>9, <3>10 DEF EscrowStep
  <2> QED BY <2>1, <2>2, LedgerEscrows DEF ledger_vars
<1>3. LedgerTypeOK /\ [LedgerNext]_ledger_vars => LedgerTypeOK'
  BY LedgerTypes
<1> QED BY <1>1, <1>2, <1>3, LedgerStart, PTL DEF LedgerSpec, LedgerKeepsPromise,
        LedgerPromise!Spec

\* The marketplace, which sees a stored escrow through to_market (payment.rs), sees it make only
\* transitions that its own EscrowState::can_transition_to allows.
THEOREM LedgerStepsLegal ==
    ASSUME LedgerConstants PROVE LedgerSpec => [][MarketSeesLegalTransitions]_ledger_vars
<1>1. LedgerTypeOK /\ [LedgerNext]_ledger_vars => [MarketSeesLegalTransitions]_ledger_vars
  <2> SUFFICES ASSUME LedgerTypeOK, LedgerNext PROVE MarketSeesLegalTransitions
    OBVIOUS
  <2>1. CASE escrows' = escrows
    BY <2>1 DEF MarketSeesLegalTransitions
  <2>2. ASSUME NEW id \in EscrowIds, NEW e, EscrowStep(id, e) PROVE MarketSeesLegalTransitions
    <3>1. /\ escrows'[id] = e
          /\ \A j \in EscrowIds \ {id} : escrows'[j] = escrows[j]
      BY <2>2, OneStored
    <3>2. id \in Stored => can_transition_to(to_market(escrows[id].state), to_market(e.state))
      BY <2>2 DEF EscrowStep, Stored, to_market, can_transition_to
    <3> QED BY <3>1, <3>2 DEF MarketSeesLegalTransitions, Stored
  <2> QED BY <2>1, <2>2, LedgerEscrows
<1>2. LedgerTypeOK /\ [LedgerNext]_ledger_vars => LedgerTypeOK'
  BY LedgerTypes
<1> QED BY <1>1, <1>2, LedgerStart, PTL DEF LedgerSpec

\* No step of another task takes from a wallet what its own task was found to have.
LEMMA CheckHeld ==
    ASSUME LedgerConstants, OneTaskPerWallet, LedgerTypeOK, CheckStillHolds,
           [LedgerNext]_ledger_vars
    PROVE  CheckStillHolds'
<1>1. \A t \in Tasks : /\ Wallet[t] \in Addresses
                       /\ call[t] # Idle => call[t].amount \in Nat
                       /\ call[t].op # "idle" => call[t] # Idle
  BY LedgerFields
<1>2. balance \in [Addresses -> Nat] /\ balance' \in [Addresses -> Nat]
  BY LedgerTypes DEF LedgerTypeOK
<1>3. ASSUME call' = call, \A a \in Addresses : balance'[a] >= balance[a]
      PROVE  CheckStillHolds'
  BY <1>1, <1>2, <1>3 DEF CheckStillHolds
<1>4. CASE UNCHANGED ledger_vars
  BY <1>2, <1>3, <1>4 DEF ledger_vars
<1>5. ASSUME NEW a \in Addresses, NEW m \in Amounts, airdrop(a, m) PROVE CheckStillHolds'
  BY <1>2, <1>3, <1>5, Credited, Zenon DEF airdrop, LedgerConstants
<1>6. ASSUME NEW t \in Tasks, NEW op \in {"transfer", "create_escrow"}, NEW to \in Addresses,
             NEW m \in Amounts, check_balance(t, op, to, m)
      PROVE  CheckStillHolds'
  <2>1. m \in Nat
    BY DEF LedgerConstants
  <2>2. CASE balance[Wallet[t]] < m
    BY <1>6, <2>2 DEF check_balance, CheckStillHolds
  <2>3. CASE ~ (balance[Wallet[t]] < m)
    BY <1>1, <1>2, <1>6, <2>1, <2>3 DEF check_balance, CheckStillHolds, LedgerTypeOK
  <2> QED BY <2>2, <2>3
<1>7. ASSUME NEW t \in Tasks, call' = [call EXCEPT ![t] = Idle],
             \A a \in Addresses \ {Wallet[t]} : balance'[a] >= balance[a]
      PROVE  CheckStillHolds'
  <2>1. \A s \in Tasks \ {t} : call'[s] = call[s] /\ Wallet[s] \in Addresses \ {Wallet[t]}
    BY <1>1, <1>7 DEF OneTaskPerWallet, LedgerTypeOK
  <2>2. call'[t] = Idle
    BY <1>7 DEF LedgerTypeOK
  <2> QED BY <1>1, <1>2, <1>7, <2>1, <2>2 DEF CheckStillHolds
<1>8. ASSUME NEW t \in Tasks, transfer(t) PROVE CheckStillHolds'
  <2> DEFINE b == debit(balance, Wallet[t], call[t].amount)
  <2>1. call[t] \in Call /\ call[t].amount \in Nat
    BY <1>8, LedgerFields DEF transfer
  <2>2. call[t].to \in Addresses
    BY <2>1 DEF Call
  <2>3. b \in [Addresses -> Nat] /\ \A a \in Addresses \ {Wallet[t]} : b[a] = balance[a]
    BY <1>1, <1>2, <2>1, Debited, Zenon
  <2>4. balance' = credit(b, call[t].to, call[t].amount)
    BY <1>8 DEF transfer
  <2> HIDE DEF b
  <2>5. \A a \in Addresses : balance'[a] >= b[a]
    BY <2>1, <2>2, <2>3, <2>4, Credited
  <2> QED BY <1>7, <1>8, <2>3, <2>5, Zenon DEF transfer
<1>9. ASSUME NEW t \in Tasks, NEW id \in EscrowIds, create_escrow(t, id) PROVE CheckStillHolds'
  <2>1. call[t].amount \in Nat
    BY <1>9, LedgerFields DEF create_escrow
  <2>2. /\ balance' = debit(balance, Wallet[t], call[t].amount)
        /\ call' = [call EXCEPT ![t] = Idle]
    BY <1>9 DEF create_escrow
  <2>3. \A a \in Addresses \ {Wallet[t]} : balance'[a] = balance[a]
    <3>1. Wallet[t] \in Addresses
      BY <1>1
    <3>2. \A a \in Addresses \ {Wallet[t]} :
             debit(balance, Wallet[t], call[t].amount)[a] = balance[a]
      BY <1>2, <2>1, <3>1, Debited
    <3> QED BY <2>2, <3>2
  <2>4. \A a \in Addresses \ {Wallet[t]} : balance'[a] >= balance[a]
    BY <1>2, <2>3
  <2> QED BY <1>7, <2>2, <2>4, Zenon
<1>10. ASSUME NEW id \in EscrowIds, release_escrow(id) PROVE CheckStillHolds'
  <2>1. escrows[id] \in Escrow
    BY <1>10, LedgerFields DEF release_escrow, can_release
  <2>2. /\ escrows[id].amount \in Nat /\ escrows[id].fee_rate_bps = DEFAULT_FEE_RATE_BPS
        /\ escrows[id].provider \in Addresses
    BY <2>1, Zenon DEF Escrow, LedgerConstants
  <2>3. provider_payout(escrows[id]) \in Nat
    BY <2>2, Payout DEF provider_payout
  <2> QED BY <1>2, <1>3, <1>10, <2>2, <2>3, Credited, Zenon DEF release_escrow
<1>11. ASSUME NEW id \in EscrowIds, refund_escrow(id) PROVE CheckStillHolds'
  <2>1. escrows[id] \in Escrow
    BY <1>11, LedgerFields DEF refund_escrow, can_refund
  <2>2. escrows[id].amount \in Nat /\ escrows[id].buyer \in Addresses
    BY <2>1, Zenon DEF Escrow, LedgerConstants
  <2> QED BY <1>2, <1>3, <1>11, <2>2, Credited, Zenon DEF refund_escrow
<1> QED BY <1>4, <1>5, <1>6, <1>8, <1>9, <1>10, <1>11 DEF LedgerNext, settle_refused

\* With one task per wallet, the balance that transfer and create_escrow checked under one lock is
\* still there when they debit it under the next: saturating_sub never cuts a debit short.  With
\* two tasks on a wallet it may (the run molt_shared_wallet).
THEOREM DebitsCovered ==
    ASSUME LedgerConstants, OneTaskPerWallet
    PROVE  LedgerSpec => []CheckStillHolds /\ [][DebitsAreCovered]_ledger_vars
<1> DEFINE Inv == LedgerTypeOK /\ CheckStillHolds
<1>1. LedgerInit => Inv
  <2>1. LedgerInit => CheckStillHolds
    BY DEF LedgerInit, CheckStillHolds
  <2> QED BY <2>1, LedgerStart
<1>2. Inv /\ [LedgerNext]_ledger_vars => Inv'
  BY LedgerTypes, CheckHeld
<1>3. Inv => CheckStillHolds
  OBVIOUS
<1>4. Inv /\ [LedgerNext]_ledger_vars => [DebitsAreCovered]_ledger_vars
  BY DEF CheckStillHolds, DebitsAreCovered
<1> HIDE DEF Inv
<1> QED BY <1>1, <1>2, <1>3, <1>4, PTL DEF LedgerSpec
=============================================================================
